---- MODULE Spec2Model ----
(***************************************************************************)
(* Model of @ticatec/node-common-library.                                  *)
(*                                                                         *)
(*  - CommonService.executeInTx / executeNonTx (transaction coordinator),  *)
(*    one step per await of the handler, driver operations may fail.       *)
(*  - CommonSearchCriteria.buildCriteria / buildStarCriteria /             *)
(*    buildRangeCriteria (predicate builder) over an explicit SQL text     *)
(*    and parameter list.                                                  *)
(*  - CommonSearchCriteria.paginationQuery, DBConnection.quickSearch and   *)
(*    CommonDAO.quickSearch (pagination engine) against a driver that      *)
(*    evaluates the SQL text over a table.                                 *)
(***************************************************************************)
EXTENDS Integers, Sequences, FiniteSets, TLC

VARIABLES
    pc,          \* executeInTx/executeNonTx: position of each invocation
    mode,        \* "tx" (executeInTx), "nontx" (executeNonTx), "none" (not called)
    conn,        \* the local `conn` of each invocation (NoConn before the acquire)
    issued,      \* factory: issued[c] = the invocation createDBConnection gave c to
    trace,       \* what each invocation did in order: driver operations, and
                 \* "work" where it invoked dbProcessor
    ex,          \* the exception caught by the catch block of executeInTx
    completion,  \* completion of the try/catch statement, pending during finally
    outcome,     \* what the caller of the invocation observes
    workArg,     \* the connection dbProcessor was invoked with
    workEnd,     \* how dbProcessor ended (returned a value / threw)
    sql,         \* CommonSearchCriteria.sql: the appended clauses
    params,      \* CommonSearchCriteria.params
    call,        \* the last builder call: its arguments, pre-state and return value
    intro,       \* history: the placeholder and the value each appended clause introduced
    crit,        \* the criteria object handed to the constructor, page and rows included
    pq,          \* locals of the paginationQuery / quickSearch call in progress
    queries,     \* what the driver received during the call in progress, in order
    done,        \* the finished pagination calls: outcome and the queries each issued
    heap,        \* the objects created so far: heap[id] maps attribute names to values
    mat,         \* the listQuery call on a result set: its arguments and what it returned
    script,      \* the executeSQLFile call: the script, the statements, the position
    beans,       \* BeanFactory: the registrations and what the last request returned
    mgr,         \* DBManager: the process-wide instance and what connect delegated
    ctor,        \* the CommonSearchCriteria constructor: what it was given, page and rows
    bits         \* a BitsBoolean object: its value and the last call made on it

txVars == <<pc, mode, conn, issued, trace, ex, completion, outcome,
            workArg, workEnd>>
critVars == <<sql, params, call, intro>>
pageVars == <<crit, pq, queries, done>>
libVars == <<heap, mat, script, beans, mgr, ctor, bits>>
vars == <<pc, mode, conn, issued, trace, ex, completion, outcome,
          workArg, workEnd, sql, params, call, intro, crit, pq, queries, done,
          heap, mat, script, beans, mgr, ctor, bits>>

(***************************************************************************)
(* Predicate builder: CommonSearchCriteria                                 *)
(*                                                                         *)
(* A JavaScript value is a tagged record; a string is the sequence of its  *)
(* characters. The SQL text is the sequence of the pieces the template     *)
(* literals concatenate: keywords, the field name, "$" and decimal digits. *)
(***************************************************************************)

\* most parameters a criteria of the model accumulates
MaxParams == 3

\* longest text handed to buildStarCriteria
MaxTextLen == 3

Null == [t |-> "null", s |-> <<>>, n |-> 0]
Undefined == [t |-> "undefined", s |-> <<>>, n |-> 0]
Str(chars) == [t |-> "string", s |-> chars, n |-> 0]
Num(k) == [t |-> "number", s |-> <<>>, n |-> k]

Whitespace == {" ", "\n", "\r"}
Alphabet == {"a", " ", "%", "*", "\\"}
Strings(len) == UNION {[1..k -> Alphabet] : k \in 0..len}

Fields == {"name", "age"}
BaseSQL == <<"select * from t where 1 = 1">>

\* StringUtils.isString
IsString(v) == v.t = "string"

\* String.prototype.trim
RECURSIVE TrimLeft(_)
TrimLeft(s) ==
    IF s # <<>> /\ Head(s) \in Whitespace THEN TrimLeft(Tail(s)) ELSE s
RECURSIVE TrimRight(_)
TrimRight(s) ==
    IF s # <<>> /\ s[Len(s)] \in Whitespace
    THEN TrimRight(SubSeq(s, 1, Len(s) - 1)) ELSE s
Trim(s) == TrimRight(TrimLeft(s))

\* StringUtils.isEmpty: s == null || (isString(s) && s.trim().length == 0)
IsEmpty(v) ==
    \/ v.t \in {"null", "undefined"}
    \/ (IsString(v) /\ Len(Trim(v.s)) = 0)

\* CommonSearchCriteria.isNotEmpty
IsNotEmpty(v) ==
    IF IsString(v) THEN ~IsEmpty(v) ELSE v.t \notin {"null", "undefined"}

\* String.prototype.replace(/c/g, by)
RECURSIVE ReplaceAll(_, _, _)
ReplaceAll(s, c, by) ==
    IF s = <<>> THEN <<>>
    ELSE (IF Head(s) = c THEN by ELSE <<Head(s)>>) \o ReplaceAll(Tail(s), c, by)

\* CommonSearchCriteria.includeStar
IncludeStar(s) == \E k \in 1..Len(s) : s[k] = "*"

\* CommonSearchCriteria.replaceWildStar
ReplaceWildStar(s) == ReplaceAll(ReplaceAll(s, "%", <<"\\", "%">>), "*", <<"%">>)

\* number -> string conversion of `${idx}`
Digit(d) == <<"0", "1", "2", "3", "4", "5", "6", "7", "8", "9">>[d + 1]
RECURSIVE Dec(_)
Dec(k) == IF k < 10 THEN <<Digit(k)>> ELSE Dec(k \div 10) \o <<Digit(k % 10)>>

\* ` and ${field}${op}$${idx}`
Clause(field, op, idx) == <<" and ", field, op, "$">> \o Dec(idx)

Criteria(q, p) == [sql |-> q, params |-> p]
Result(q, p, r, threw, added) ==
    [sql |-> q, params |-> p, ret |-> r, threw |-> threw, added |-> added]
Intro(idx, v) == [ph |-> idx, value |-> v]

\* CommonSearchCriteria.buildCriteria(value, field)
BuildCriteriaStaleIndex(c, value, field) ==
    LET idx == Len(c.params) IN
    IF IsNotEmpty(value)
    THEN Result(c.sql \o Clause(field, " = ", idx), Append(c.params, value),
                idx + 1, FALSE, <<Intro(idx, value)>>)
    ELSE Result(c.sql, c.params, idx, FALSE, <<>>)
BuildCriteria(c, value, field) ==
    LET idx == Len(c.params) + 1 IN
    IF IsNotEmpty(value)
    THEN Result(c.sql \o Clause(field, " = ", idx), Append(c.params, value),
                idx + 1, FALSE, <<Intro(idx, value)>>)
    ELSE Result(c.sql, c.params, idx, FALSE, <<>>)

\* CommonSearchCriteria.buildStarCriteria(text, field); text.includes is not a
\* function when a non-empty text is no string: the call throws a TypeError
BuildStarCriteria(c, text, field) ==
    LET idx == Len(c.params) + 1 IN
    IF IsNotEmpty(text)
    THEN IF ~IsString(text)
         THEN Result(c.sql, c.params, idx, TRUE, <<>>)
         ELSE IF IncludeStar(text.s)
              THEN Result(c.sql \o Clause(field, " like ", idx),
                          Append(c.params, Str(ReplaceWildStar(text.s))),
                          idx + 1, FALSE, <<Intro(idx, Str(ReplaceWildStar(text.s)))>>)
              ELSE Result(c.sql \o Clause(field, " = ", idx),
                          Append(c.params, text),
                          idx + 1, FALSE, <<Intro(idx, text)>>)
    ELSE Result(c.sql, c.params, idx, FALSE, <<>>)

\* CommonSearchCriteria.buildRangeCriteria(fromValue, toValue, field)
BuildRangeCriteriaSameIndex(c, fromValue, toValue, field) ==
    LET idx == Len(c.params) + 1
        hasFrom == IsNotEmpty(fromValue)
        hasTo == IsNotEmpty(toValue)
        q1 == IF hasFrom THEN c.sql \o Clause(field, " >= ", idx) ELSE c.sql
        p1 == IF hasFrom THEN Append(c.params, fromValue) ELSE c.params
        a1 == IF hasFrom THEN <<Intro(idx, fromValue)>> ELSE <<>>
    IN  IF hasTo
        THEN Result(q1 \o Clause(field, " < ", idx), Append(p1, toValue),
                    idx + 1, FALSE, Append(a1, Intro(idx, toValue)))
        ELSE Result(q1, p1, IF hasFrom THEN idx + 1 ELSE idx, FALSE, a1)
BuildRangeCriteriaInclusive(c, fromValue, toValue, field) ==
    LET idx == Len(c.params) + 1
        hasFrom == IsNotEmpty(fromValue)
        hasTo == IsNotEmpty(toValue)
        idx1 == IF hasFrom THEN idx + 1 ELSE idx
        q1 == IF hasFrom THEN c.sql \o Clause(field, " >= ", idx) ELSE c.sql
        p1 == IF hasFrom THEN Append(c.params, fromValue) ELSE c.params
        a1 == IF hasFrom THEN <<Intro(idx, fromValue)>> ELSE <<>>
    IN  IF hasTo
        THEN Result(q1 \o Clause(field, " <= ", idx1), Append(p1, toValue),
                    idx1 + 1, FALSE, Append(a1, Intro(idx1, toValue)))
        ELSE Result(q1, p1, idx1, FALSE, a1)
BuildRangeCriteria(c, fromValue, toValue, field) ==
    LET idx == Len(c.params) + 1
        hasFrom == IsNotEmpty(fromValue)
        hasTo == IsNotEmpty(toValue)
        idx1 == IF hasFrom THEN idx + 1 ELSE idx
        q1 == IF hasFrom THEN c.sql \o Clause(field, " >= ", idx) ELSE c.sql
        p1 == IF hasFrom THEN Append(c.params, fromValue) ELSE c.params
        a1 == IF hasFrom THEN <<Intro(idx, fromValue)>> ELSE <<>>
    IN  IF hasTo
        THEN Result(q1 \o Clause(field, " < ", idx1), Append(p1, toValue),
                    idx1 + 1, FALSE, Append(a1, Intro(idx1, toValue)))
        ELSE Result(q1, p1, idx1, FALSE, a1)

NoCall ==
    [op |-> "none", a |-> Null, b |-> Null, field |-> "", preSql |-> <<>>,
     preParams |-> <<>>, ret |-> 0, threw |-> FALSE]

\* no listQuery call, no executeSQLFile call, no BeanFactory and no DBManager
\* in the scenario
NoMat == [input |-> <<>>, calls |-> <<>>, touched |-> 0]
NoScript ==
    [pc |-> "idle", text |-> <<>>, pieces |-> <<>>, stmts |-> <<>>,
     executed |-> <<>>, hasError |-> FALSE, returned |-> FALSE]
NoBeans == [map |-> <<>>, made |-> <<>>, log |-> <<>>]
NoMgr == [instance |-> 0, managers |-> <<>>, log |-> <<>>]
NoCtor ==
    [pc |-> "idle", given |-> Undefined, page |-> Undefined, rows |-> Undefined]

\* a BitsBoolean object constructed without an argument, no call made on it
NoBits ==
    [value |-> [t |-> "int", n |-> [k \in 0..31 |-> FALSE]],
     last |-> [op |-> "none", pos |-> 0, v |-> FALSE, threw |-> FALSE, ret |-> FALSE,
               before |-> [t |-> "int", n |-> [k \in 0..31 |-> FALSE]],
               array |-> <<>>, out |-> <<>>],
     n |-> 0]

\* no criteria object constructed, no pagination call in progress
NoCrit ==
    [page |-> 0, rows |-> 0, name |-> Null, from |-> Null, to |-> Null,
     post |-> "none"]
NoPq == [pc |-> "idle", variant |-> "none", count |-> Undefined, offset |-> 0,
         found |-> Undefined, preSql |-> <<>>, preParams |-> <<>>]

(***************************************************************************)
(* Transaction coordinator: CommonService                                  *)
(***************************************************************************)

\* the invocations of the scenario: a call and one nested in / concurrent with it
Invocations == {"outer", "inner"}

\* queries dbProcessor may issue on the connection
MaxQueries == 2

\* values dbProcessor may return
WorkValues == {"r1", "r2"}

NoConn == 0

None == [kind |-> "none", val |-> "none"]
Returned(v) == [kind |-> "returned", val |-> v]
Threw(e) == [kind |-> "threw", val |-> e]

Op(o, c, ok) == [op |-> o, conn |-> c, ok |-> ok]

\* number of operations named o in a trace
RECURSIVE CountOp(_, _)
CountOp(t, o) ==
    IF t = <<>> THEN 0
    ELSE (IF Head(t).op = o THEN 1 ELSE 0) + CountOp(Tail(t), o)

\* DBFactory.createDBConnection: a new connection on every call
CreateDBConnection == Len(issued) + 1

\* the connection a statement `conn.xxx()` of invocation i acts on: its local
TargetConnShared(i) == Len(issued)
TargetConn(i) == conn[i]

\* where control goes once `await conn.rollback()` in the catch block settled:
\* the finally block, whether rollback resolved or rejected
PcAfterRollbackNoFinally(ok) == IF ok THEN "close" ELSE "done"
PcAfterRollback(ok) == "close"

\* where control goes once dbProcessor resolved in executeInTx
PcAfterWorkSkipCommit == "close"
PcAfterWork == "commit"

\* where control goes once `await conn.beginTransaction()` settled: on to
\* dbProcessor, or into the catch block (the call is inside the try)
PcAfterBeginOutsideTry(ok) == IF ok THEN "work" ELSE "done"
PcAfterBegin(ok) == IF ok THEN "work" ELSE "rollback"

\* where control goes once `await conn.commit()` settled: to the finally
\* block with the result, or into the catch block
PcAfterCommitNoCatch(ok) == "close"
PcAfterCommit(ok) == IF ok THEN "close" ELSE "rollback"

\* first statement after the connection was acquired
PcAfterAcquireAlwaysTx(m) == "begin"
PcAfterAcquire(m) == IF m = "tx" THEN "begin" ELSE "work"

TxInit ==
    /\ pc = [i \in Invocations |-> "idle"]
    /\ mode = [i \in Invocations |-> "none"]
    /\ conn = [i \in Invocations |-> NoConn]
    /\ issued = <<>>
    /\ trace = [i \in Invocations |-> <<>>]
    /\ ex = [i \in Invocations |-> "none"]
    /\ completion = [i \in Invocations |-> None]
    /\ outcome = [i \in Invocations |-> None]
    /\ workArg = [i \in Invocations |-> NoConn]
    /\ workEnd = [i \in Invocations |-> None]
    /\ sql = <<>>
    /\ params = <<>>
    /\ call = NoCall
    /\ intro = <<>>
    /\ crit = NoCrit
    /\ pq = NoPq
    /\ queries = <<>>
    /\ done = <<>>
    /\ heap = <<>>
    /\ mat = NoMat
    /\ script = NoScript
    /\ beans = NoBeans
    /\ mgr = NoMgr
    /\ ctor = NoCtor
    /\ bits = NoBits

\* a caller invokes executeInTx (m = "tx") or executeNonTx (m = "nontx")
Call(i, m) ==
    /\ pc[i] = "idle"
    /\ pc' = [pc EXCEPT ![i] = "acquire"]
    /\ mode' = [mode EXCEPT ![i] = m]
    /\ UNCHANGED <<conn, issued, trace, ex, completion, outcome,
                   workArg, workEnd>>
    /\ UNCHANGED <<critVars, pageVars, libVars>>

\* let conn = await this.getDBConnection();   (outside the try)
\* in executeNonTx the try body then invokes dbProcessor(conn)
Acquire(i, ok) ==
    /\ pc[i] = "acquire"
    /\ IF ok
       THEN /\ conn' = [conn EXCEPT ![i] = CreateDBConnection]
            /\ issued' = Append(issued, i)
            /\ pc' = [pc EXCEPT ![i] = PcAfterAcquire(mode[i])]
            /\ IF PcAfterAcquire(mode[i]) = "work"
               THEN /\ trace' = [trace EXCEPT ![i] =
                                    @ \o <<Op("acquire", CreateDBConnection, TRUE),
                                           Op("work", CreateDBConnection, TRUE)>>]
                    /\ workArg' = [workArg EXCEPT ![i] = CreateDBConnection]
               ELSE /\ trace' = [trace EXCEPT ![i] =
                                    Append(@, Op("acquire", CreateDBConnection, TRUE))]
                    /\ UNCHANGED workArg
            /\ UNCHANGED outcome
       ELSE /\ outcome' = [outcome EXCEPT ![i] = Threw("E_acquire")]
            /\ pc' = [pc EXCEPT ![i] = "done"]
            /\ UNCHANGED <<conn, issued, trace, workArg>>
    /\ UNCHANGED <<mode, ex, completion, workEnd>>
    /\ UNCHANGED <<critVars, pageVars, libVars>>

\* await conn.beginTransaction(); let result = await dbProcessor(conn);
Begin(i, ok) ==
    /\ pc[i] = "begin"
    /\ IF ok
       THEN /\ trace' = [trace EXCEPT ![i] =
                            @ \o <<Op("begin", TargetConn(i), TRUE),
                                   Op("work", TargetConn(i), TRUE)>>]
            /\ pc' = [pc EXCEPT ![i] = PcAfterBegin(TRUE)]
            /\ workArg' = [workArg EXCEPT ![i] = TargetConn(i)]
            /\ UNCHANGED ex
       ELSE /\ trace' = [trace EXCEPT ![i] = Append(@, Op("begin", TargetConn(i), FALSE))]
            /\ pc' = [pc EXCEPT ![i] = PcAfterBegin(FALSE)]
            /\ ex' = [ex EXCEPT ![i] = "E_begin"]
            /\ UNCHANGED workArg
    /\ UNCHANGED <<mode, conn, issued, completion, outcome, workEnd>>
    /\ UNCHANGED <<critVars, pageVars, libVars>>

\* dbProcessor ends by throwing e: executeInTx enters the catch block,
\* executeNonTx goes to its finally block with the exception pending
WorkFails(i, e) ==
    /\ workEnd' = [workEnd EXCEPT ![i] = Threw(e)]
    /\ IF mode[i] = "tx"
       THEN /\ pc' = [pc EXCEPT ![i] = "rollback"]
            /\ ex' = [ex EXCEPT ![i] = e]
            /\ UNCHANGED completion
       ELSE /\ pc' = [pc EXCEPT ![i] = "close"]
            /\ completion' = [completion EXCEPT ![i] = Threw(e)]
            /\ UNCHANGED ex

\* dbProcessor runs one of its own queries on the connection it was given;
\* a failing query rejects dbProcessor
WorkQuery(i, ok) ==
    /\ pc[i] = "work"
    /\ CountOp(trace[i], "query") < MaxQueries
    /\ trace' = [trace EXCEPT ![i] = Append(@, Op("query", workArg[i], ok))]
    /\ IF ok
       THEN UNCHANGED <<pc, ex, completion, workEnd>>
       ELSE WorkFails(i, "E_query")
    /\ UNCHANGED <<mode, conn, issued, outcome, workArg>>
    /\ UNCHANGED <<critVars, pageVars, libVars>>

\* dbProcessor throws an exception of its own
WorkThrow(i) ==
    /\ pc[i] = "work"
    /\ WorkFails(i, "E_work")
    /\ UNCHANGED <<mode, conn, issued, trace, outcome, workArg>>
    /\ UNCHANGED <<critVars, pageVars, libVars>>

\* dbProcessor resolves with v
WorkReturn(i, v) ==
    /\ pc[i] = "work"
    /\ workEnd' = [workEnd EXCEPT ![i] = Returned(v)]
    /\ IF mode[i] = "tx"
       THEN /\ pc' = [pc EXCEPT ![i] = PcAfterWork]
            /\ UNCHANGED completion
       ELSE /\ pc' = [pc EXCEPT ![i] = "close"]
            /\ completion' = [completion EXCEPT ![i] = Returned(v)]
    /\ UNCHANGED <<mode, conn, issued, trace, ex, outcome, workArg>>
    /\ UNCHANGED <<critVars, pageVars, libVars>>

\* await conn.commit(); return result;
Commit(i, ok) ==
    /\ pc[i] = "commit"
    /\ trace' = [trace EXCEPT ![i] = Append(@, Op("commit", TargetConn(i), ok))]
    /\ IF ok
       THEN /\ pc' = [pc EXCEPT ![i] = PcAfterCommit(TRUE)]
            /\ completion' = [completion EXCEPT ![i] = Returned(workEnd[i].val)]
            /\ UNCHANGED ex
       ELSE /\ pc' = [pc EXCEPT ![i] = PcAfterCommit(FALSE)]
            /\ ex' = [ex EXCEPT ![i] = "E_commit"]
            /\ UNCHANGED completion
    /\ UNCHANGED <<mode, conn, issued, outcome, workArg, workEnd>>
    /\ UNCHANGED <<critVars, pageVars, libVars>>

\* catch (ex) { await conn.rollback(); throw ex; }
\* a rejected rollback leaves the catch block with its own error
Rollback(i, ok) ==
    /\ pc[i] = "rollback"
    /\ trace' = [trace EXCEPT ![i] = Append(@, Op("rollback", TargetConn(i), ok))]
    /\ completion' = [completion EXCEPT ![i] =
                         IF ok THEN Threw(ex[i]) ELSE Threw("E_rollback")]
    /\ pc' = [pc EXCEPT ![i] = PcAfterRollback(ok)]
    /\ UNCHANGED <<mode, conn, issued, ex, outcome, workArg, workEnd>>
    /\ UNCHANGED <<critVars, pageVars, libVars>>

\* finally { await conn.close(); }
\* a rejected close replaces the pending completion
Close(i, ok) ==
    /\ pc[i] = "close"
    /\ trace' = [trace EXCEPT ![i] = Append(@, Op("close", TargetConn(i), ok))]
    /\ outcome' = [outcome EXCEPT ![i] =
                      IF ok THEN completion[i] ELSE Threw("E_close")]
    /\ pc' = [pc EXCEPT ![i] = "done"]
    /\ UNCHANGED <<mode, conn, issued, ex, completion, workArg, workEnd>>
    /\ UNCHANGED <<critVars, pageVars, libVars>>

TxNext ==
    \/ \E i \in Invocations, m \in {"tx", "nontx"} : Call(i, m)
    \/ \E i \in Invocations, ok \in BOOLEAN : Acquire(i, ok)
    \/ \E i \in Invocations, ok \in BOOLEAN : Begin(i, ok)
    \/ \E i \in Invocations, ok \in BOOLEAN : WorkQuery(i, ok)
    \/ \E i \in Invocations : WorkThrow(i)
    \/ \E i \in Invocations, v \in WorkValues : WorkReturn(i, v)
    \/ \E i \in Invocations, ok \in BOOLEAN : Commit(i, ok)
    \/ \E i \in Invocations, ok \in BOOLEAN : Rollback(i, ok)
    \/ \E i \in Invocations, ok \in BOOLEAN : Close(i, ok)

SpecTx == TxInit /\ [][TxNext]_vars

(***************************************************************************)
(* The predicate builder as a state machine                                *)
(***************************************************************************)

\* values handed to the builder methods when calls are chained
ChainValues == {Null, Undefined, Str(<<>>), Str(<<" ">>), Str(<<"a">>), Num(0)}
ChainTexts == {Null, Str(<<" ">>), Str(<<"a">>), Str(<<"a", "*">>), Str(<<"%", "*">>)}
ChainBounds == {Null, Str(<<" ">>), Str(<<"a">>), Num(7)}

\* values handed to a single builder call
CallValues ==
    {Null, Undefined, Num(0), Num(7)} \cup {Str(x) : x \in Strings(MaxTextLen)}
CallBounds ==
    {Null, Undefined, Num(0), Num(7)} \cup {Str(x) : x \in Strings(1)}

\* the criteria after k earlier buildCriteria calls
RECURSIVE Prefilled(_)
Prefilled(k) ==
    IF k = 0 THEN Result(BaseSQL, <<>>, 1, FALSE, <<>>)
    ELSE LET before == Prefilled(k - 1)
             r == BuildCriteria(Criteria(before.sql, before.params), Num(k), "age")
         IN  [r EXCEPT !.added = before.added \o r.added]

\* the criteria takes over what a builder call produced
Apply(op, a, b, field, r) ==
    /\ sql' = r.sql
    /\ params' = r.params
    /\ intro' = intro \o r.added
    /\ call' = [op |-> op, a |-> a, b |-> b, field |-> field, preSql |-> sql,
                preParams |-> params, ret |-> r.ret, threw |-> r.threw]
    /\ UNCHANGED <<txVars, pageVars, libVars>>

DoBuildCriteria(value, field) ==
    Apply("buildCriteria", value, Null, field,
          BuildCriteria(Criteria(sql, params), value, field))

DoBuildStarCriteria(text, field) ==
    Apply("buildStarCriteria", text, Null, field,
          BuildStarCriteria(Criteria(sql, params), text, field))

DoBuildRangeCriteria(fromValue, toValue, field) ==
    Apply("buildRangeCriteria", fromValue, toValue, field,
          BuildRangeCriteria(Criteria(sql, params), fromValue, toValue, field))

\* a freshly constructed criteria: params = [], sql set by the subclass
CritInit ==
    /\ pc = [i \in Invocations |-> "idle"]
    /\ mode = [i \in Invocations |-> "none"]
    /\ conn = [i \in Invocations |-> NoConn]
    /\ issued = <<>>
    /\ trace = [i \in Invocations |-> <<>>]
    /\ ex = [i \in Invocations |-> "none"]
    /\ completion = [i \in Invocations |-> None]
    /\ outcome = [i \in Invocations |-> None]
    /\ workArg = [i \in Invocations |-> NoConn]
    /\ workEnd = [i \in Invocations |-> None]
    /\ sql = BaseSQL
    /\ params = <<>>
    /\ call = NoCall
    /\ intro = <<>>
    /\ crit = NoCrit
    /\ pq = NoPq
    /\ queries = <<>>
    /\ done = <<>>
    /\ heap = <<>>
    /\ mat = NoMat
    /\ script = NoScript
    /\ beans = NoBeans
    /\ mgr = NoMgr
    /\ ctor = NoCtor
    /\ bits = NoBits

\* builder calls chained in any order on one criteria
CritNext ==
    \/ \E v \in ChainValues, f \in Fields :
          Len(params) < MaxParams /\ DoBuildCriteria(v, f)
    \/ \E x \in ChainTexts, f \in Fields :
          Len(params) < MaxParams /\ DoBuildStarCriteria(x, f)
    \/ \E v \in ChainBounds, w \in ChainBounds, f \in Fields :
          Len(params) < MaxParams /\ DoBuildRangeCriteria(v, w, f)

SpecCrit == CritInit /\ [][CritNext]_vars

\* a criteria that already holds up to MaxParams parameters
CallInit ==
    /\ pc = [i \in Invocations |-> "idle"]
    /\ mode = [i \in Invocations |-> "none"]
    /\ conn = [i \in Invocations |-> NoConn]
    /\ issued = <<>>
    /\ trace = [i \in Invocations |-> <<>>]
    /\ ex = [i \in Invocations |-> "none"]
    /\ completion = [i \in Invocations |-> None]
    /\ outcome = [i \in Invocations |-> None]
    /\ workArg = [i \in Invocations |-> NoConn]
    /\ workEnd = [i \in Invocations |-> None]
    /\ \E k \in 0..MaxParams :
          /\ sql = Prefilled(k).sql
          /\ params = Prefilled(k).params
          /\ intro = Prefilled(k).added
    /\ call = NoCall
    /\ crit = NoCrit
    /\ pq = NoPq
    /\ queries = <<>>
    /\ done = <<>>
    /\ heap = <<>>
    /\ mat = NoMat
    /\ script = NoScript
    /\ beans = NoBeans
    /\ mgr = NoMgr
    /\ ctor = NoCtor
    /\ bits = NoBits

\* one builder call on it, with any argument
CallNext ==
    \/ \E v \in CallValues, f \in Fields :
          call.op = "none" /\ DoBuildCriteria(v, f)
    \/ \E x \in CallValues, f \in Fields :
          call.op = "none" /\ DoBuildStarCriteria(x, f)
    \/ \E v \in CallBounds, w \in CallBounds, f \in Fields :
          call.op = "none" /\ DoBuildRangeCriteria(v, w, f)

SpecCall == CallInit /\ [][CallNext]_vars

(***************************************************************************)
(* Claims about the transaction coordinator                                *)
(***************************************************************************)

Done(i) == pc[i] = "done"
N(i, o) == CountOp(trace[i], o)
OpNames(t) == [k \in 1..Len(t) |-> t[k].op]
NotQuery(e) == e.op # "query"
AllOk(t) == \A k \in 1..Len(t) : t[k].ok
Failed(i, o) == \E k \in 1..Len(trace[i]) : trace[i][k].op = o /\ ~trace[i][k].ok
Succeeded(i, o) == \E k \in 1..Len(trace[i]) : trace[i][k].op = o /\ trace[i][k].ok
LastOp(i) == trace[i][Len(trace[i])].op

\* C1: executeInTx, beginTransaction succeeded and dbProcessor threw E: rollback
\* is invoked exactly once, commit never, close exactly once, and the caller
\* observes E itself.
C1_WorkFailureObserved ==
    \A i \in Invocations :
        (mode[i] = "tx" /\ Done(i) /\ Succeeded(i, "begin") /\ workEnd[i].kind = "threw")
        => /\ N(i, "rollback") = 1
           /\ N(i, "commit") = 0
           /\ N(i, "close") = 1
           /\ outcome[i] = Threw(workEnd[i].val)

\* C2: every executeInTx invocation that acquired a connection closes that
\* connection exactly once on every exit path, and close is the last driver
\* operation of the invocation (nothing is issued after it).
C2_CloseOnceAndLast ==
    \A i \in Invocations :
        mode[i] = "tx" =>
            /\ \A k \in 1..Len(trace[i]) :
                  trace[i][k].op = "close"
                  => k = Len(trace[i]) /\ trace[i][k].conn = conn[i]
            /\ (Done(i) /\ conn[i] # NoConn)
               => N(i, "close") = 1 /\ LastOp(i) = "close"

\* an executeInTx invocation whose rollback failed has finished, closed once
C2_Witness ==
    \E i \in Invocations :
        /\ mode[i] = "tx" /\ Done(i)
        /\ Failed(i, "rollback")
        /\ N(i, "close") = 1

\* C3: executeInTx, dbProcessor threw E and the rollback failed with R: the
\* caller still observes E, not R (here with close succeeding).
C3_RollbackFailureDoesNotMask ==
    \A i \in Invocations :
        (/\ mode[i] = "tx" /\ Done(i)
         /\ workEnd[i].kind = "threw"
         /\ Failed(i, "rollback")
         /\ Succeeded(i, "close"))
        => outcome[i] = Threw(workEnd[i].val)

\* C4: executeInTx, every driver operation and dbProcessor succeed: the order
\* is acquire, beginTransaction, dbProcessor(conn) (with its queries), commit,
\* close; rollback is never invoked; dbProcessor is invoked once with the
\* acquired connection; the call returns the value dbProcessor returned.
C4_SuccessOrder ==
    \A i \in Invocations :
        (/\ mode[i] = "tx" /\ Done(i) /\ conn[i] # NoConn
         /\ AllOk(trace[i]) /\ workEnd[i].kind = "returned")
        => /\ OpNames(SelectSeq(trace[i], NotQuery))
                = <<"acquire", "begin", "work", "commit", "close">>
           /\ \A k \in 1..Len(trace[i]) :
                 trace[i][k].op = "query"
                 => /\ k > 3
                    /\ k < Len(trace[i]) - 1
           /\ N(i, "rollback") = 0
           /\ N(i, "work") = 1
           /\ workArg[i] = conn[i]
           /\ outcome[i] = Returned(workEnd[i].val)

\* a fully successful executeInTx whose dbProcessor ran a query has returned
C4_Witness ==
    \E i \in Invocations :
        /\ mode[i] = "tx" /\ Done(i) /\ conn[i] # NoConn
        /\ AllOk(trace[i]) /\ workEnd[i] = Returned("r2")
        /\ N(i, "query") >= 1
        /\ outcome[i].kind = "returned"

\* C5: executeNonTx never invokes beginTransaction, commit or rollback;
\* dbProcessor is invoked exactly once with the acquired connection; close is
\* invoked exactly once, after dbProcessor finished, whether it returned or threw.
C5_NonTx ==
    \A i \in Invocations :
        mode[i] = "nontx" =>
            /\ N(i, "begin") = 0 /\ N(i, "commit") = 0 /\ N(i, "rollback") = 0
            /\ N(i, "close") >= 1 => workEnd[i] # None
            /\ (Done(i) /\ conn[i] # NoConn)
               => /\ N(i, "work") = 1
                  /\ workArg[i] = conn[i]
                  /\ N(i, "close") = 1
                  /\ LastOp(i) = "close"
                  /\ trace[i][Len(trace[i])].conn = conn[i]

\* an executeNonTx whose dbProcessor threw has finished, closed once
C5_Witness ==
    \E i \in Invocations :
        /\ mode[i] = "nontx" /\ Done(i)
        /\ workEnd[i] = Threw("E_work")
        /\ N(i, "close") = 1

\* C6: under any interleaving of invocations, each acquires exactly one
\* connection from the factory and every begin/commit/rollback/close (and the
\* connection handed to dbProcessor) is its own connection, never one acquired
\* by another invocation.
C6_OwnConnectionOnly ==
    \A i \in Invocations :
        /\ N(i, "acquire") <= 1
        /\ Cardinality({c \in 1..Len(issued) : issued[c] = i}) = N(i, "acquire")
        /\ pc[i] \notin {"idle", "acquire"} /\ outcome[i] # Threw("E_acquire")
           => N(i, "acquire") = 1
        /\ \A k \in 1..Len(trace[i]) :
              /\ trace[i][k].conn = conn[i]
              /\ trace[i][k].conn \in 1..Len(issued)
              /\ issued[trace[i][k].conn] = i
        /\ \A j \in Invocations \ {i} : conn[i] # NoConn => conn[j] # conn[i]

\* both invocations hold a connection and have operated on it while the other
\* was still running
C6_Witness ==
    /\ \A i \in Invocations : conn[i] # NoConn /\ Len(trace[i]) >= 3
    /\ mode["outer"] = "tx" /\ pc["outer"] = "work"
    /\ pc["inner"] = "done" /\ Failed("inner", "commit")

\* position of the first operation named o in the trace of invocation i
At(i, o) == CHOOSE k \in 1..Len(trace[i]) : trace[i][k].op = o

\* C32: executeInTx, beginTransaction fails with B: dbProcessor is never
\* invoked and commit is never invoked; rollback is invoked once, close once
\* after it, and the caller observes B when rollback and close succeed.
C32_BeginFailure ==
    \A i \in Invocations :
        (mode[i] = "tx" /\ Failed(i, "begin")) =>
            /\ N(i, "begin") = 1
            /\ N(i, "work") = 0 /\ workEnd[i] = None /\ workArg[i] = NoConn
            /\ N(i, "query") = 0
            /\ N(i, "commit") = 0
            /\ N(i, "rollback") <= 1 /\ N(i, "close") <= 1
            /\ Done(i) =>
                  /\ OpNames(trace[i]) = <<"acquire", "begin", "rollback", "close">>
                  /\ (Succeeded(i, "rollback") /\ Succeeded(i, "close"))
                     => outcome[i] = Threw("E_begin")

\* an executeInTx whose beginTransaction failed has finished after a
\* successful rollback and close
C32_Witness ==
    \E i \in Invocations :
        /\ mode[i] = "tx" /\ Done(i)
        /\ Failed(i, "begin")
        /\ Succeeded(i, "rollback") /\ Succeeded(i, "close")
        /\ outcome[i].kind = "threw"

\* C33: executeInTx, dbProcessor succeeds and commit fails with C: rollback
\* is invoked exactly once after the failed commit, close exactly once after
\* the rollback, the result of dbProcessor is not returned, and the caller
\* observes C when rollback and close succeed; commit is never invoked more
\* than once.
C33_CommitFailure ==
    \A i \in Invocations :
        /\ N(i, "commit") <= 1
        /\ (mode[i] = "tx" /\ Failed(i, "commit")) =>
              /\ workEnd[i].kind = "returned"
              /\ N(i, "rollback") <= 1 /\ N(i, "close") <= 1
              /\ outcome[i].kind # "returned"
              /\ Done(i) =>
                    /\ N(i, "rollback") = 1 /\ N(i, "close") = 1
                    /\ At(i, "commit") + 1 = At(i, "rollback")
                    /\ At(i, "rollback") + 1 = At(i, "close")
                    /\ At(i, "close") = Len(trace[i])
                    /\ (Succeeded(i, "rollback") /\ Succeeded(i, "close"))
                       => outcome[i] = Threw("E_commit")

\* an executeInTx whose dbProcessor ran a query and returned, and whose commit
\* failed, has finished after a successful rollback and close
C33_Witness ==
    \E i \in Invocations :
        /\ mode[i] = "tx" /\ Done(i)
        /\ workEnd[i] = Returned("r1")
        /\ N(i, "query") >= 1
        /\ Failed(i, "commit")
        /\ Succeeded(i, "rollback") /\ Succeeded(i, "close")
        /\ outcome[i].kind = "threw"

(***************************************************************************)
(* Claims about the predicate builder                                      *)
(***************************************************************************)

IsDigit(tok) == tok \in {"0", "1", "2", "3", "4", "5", "6", "7", "8", "9"}
DigitVal(tok) == CHOOSE d \in 0..9 : Digit(d) = tok

\* how many digits a text starts with
RECURSIVE LeadDigits(_)
LeadDigits(q) ==
    IF q # <<>> /\ IsDigit(Head(q)) THEN 1 + LeadDigits(Tail(q)) ELSE 0

\* the number a sequence of decimal digits denotes
RECURSIVE ParseDec(_)
ParseDec(ds) ==
    IF Len(ds) = 1 THEN DigitVal(ds[1])
    ELSE 10 * ParseDec(SubSeq(ds, 1, Len(ds) - 1)) + DigitVal(ds[Len(ds)])

\* a text of appended clauses read back: ' and <field><op>$<N>' repeated;
\* anything else reads as a clause with placeholder -1
RECURSIVE ParseClauses(_)
ParseClauses(q) ==
    IF q = <<>> THEN <<>>
    ELSE IF Len(q) >= 5 /\ q[1] = " and " /\ q[4] = "$" /\ IsDigit(q[5])
         THEN LET d == LeadDigits(SubSeq(q, 5, Len(q)))
              IN  <<[field |-> q[2], op |-> q[3], ph |-> ParseDec(SubSeq(q, 5, 4 + d))]>>
                  \o ParseClauses(SubSeq(q, 5 + d, Len(q)))
         ELSE <<[field |-> "?", op |-> "?", ph |-> -1]>>

ClauseRead(field, op, idx) == [field |-> field, op |-> op, ph |-> idx]

\* empty as the claims define it: null, undefined, or a string of blanks only
EmptyValue(v) ==
    \/ v.t \in {"null", "undefined"}
    \/ (v.t = "string" /\ \A k \in 1..Len(v.s) : v.s[k] = " ")

\* what the last call appended to the SQL text and to the parameter list
PrefixKept ==
    /\ Len(sql) >= Len(call.preSql)
    /\ SubSeq(sql, 1, Len(call.preSql)) = call.preSql
    /\ Len(params) >= Len(call.preParams)
    /\ SubSeq(params, 1, Len(call.preParams)) = call.preParams
AppendedClauses == ParseClauses(SubSeq(sql, Len(call.preSql) + 1, Len(sql)))
AppendedParams == SubSeq(params, Len(call.preParams) + 1, Len(params))
Unchanged == sql = call.preSql /\ params = call.preParams

\* C7: from an empty parameter list, after any sequence of buildCriteria,
\* buildStarCriteria and buildRangeCriteria calls the placeholders in the SQL
\* are exactly $1..$n in left-to-right order, n the number of parameters, and
\* the k-th parameter is the value pushed by the clause that introduced $k.
C7_PlaceholdersMatchParams ==
    LET cl == ParseClauses(Tail(sql)) IN
    /\ Len(cl) = Len(params)
    /\ \A k \in 1..Len(cl) : cl[k].ph = k
    /\ Len(intro) = Len(params)
    /\ \A k \in 1..Len(intro) :
          /\ intro[k].ph \in 1..Len(params)
          /\ params[intro[k].ph] = intro[k].value

\* a LIKE clause followed by a two-sided range, three parameters bound
C7_Witness ==
    /\ Len(params) = 3
    /\ call.op = "buildRangeCriteria"
    /\ Len(AppendedParams) = 2
    /\ \E k \in 1..Len(sql) : sql[k] = " like "

\* C8: buildCriteria(value, column) with a non-empty value appends exactly one
\* ' and column = $N', N = parameter count before the call + 1, pushes that
\* value and returns N + 1; with an empty value (null, undefined, blank string)
\* it changes neither the SQL nor the parameters; it never throws.
C8_BuildCriteria ==
    call.op = "buildCriteria" =>
        /\ ~call.threw
        /\ IF EmptyValue(call.a)
           THEN Unchanged
           ELSE /\ PrefixKept
                /\ AppendedClauses
                     = <<ClauseRead(call.field, " = ", Len(call.preParams) + 1)>>
                /\ AppendedParams = <<call.a>>
                /\ call.ret = Len(call.preParams) + 2

\* buildCriteria bound a string with surrounding blanks as the second parameter
C8_Witness ==
    /\ call.op = "buildCriteria"
    /\ call.a = Str(<<" ", "a", " ">>)
    /\ Len(call.preParams) = 1
    /\ Len(params) = 2

\* the bound parameter the claim describes, one character at a time:
\* '%' gives '\%', '*' gives '%', any other character stays
RECURSIVE StarRewrite(_)
StarRewrite(x) ==
    IF x = <<>> THEN <<>>
    ELSE (CASE Head(x) = "%" -> <<"\\", "%">>
            [] Head(x) = "*" -> <<"%">>
            [] OTHER -> <<Head(x)>>) \o StarRewrite(Tail(x))

RECURSIVE CountChar(_, _)
CountChar(x, c) ==
    IF x = <<>> THEN 0
    ELSE (IF Head(x) = c THEN 1 ELSE 0) + CountChar(Tail(x), c)

\* percent signs of a LIKE pattern that no backslash escapes
RECURSIVE UnescapedPercents(_)
UnescapedPercents(x) ==
    IF x = <<>> THEN 0
    ELSE IF Head(x) = "\\" THEN (IF Len(x) >= 2 THEN UnescapedPercents(Tail(Tail(x))) ELSE 0)
    ELSE (IF Head(x) = "%" THEN 1 ELSE 0) + UnescapedPercents(Tail(x))

\* buildStarCriteria appends and binds what the claim's rewriting rule says
\* (the part of C9 without its count of unescaped percent signs)
StarClauseAsDescribed ==
    IF EmptyValue(call.a)
    THEN Unchanged
    ELSE /\ PrefixKept
         /\ IF CountChar(call.a.s, "*") > 0
            THEN /\ AppendedClauses
                      = <<ClauseRead(call.field, " like ", Len(call.preParams) + 1)>>
                 /\ AppendedParams = <<Str(StarRewrite(call.a.s))>>
            ELSE /\ AppendedClauses
                      = <<ClauseRead(call.field, " = ", Len(call.preParams) + 1)>>
                 /\ AppendedParams = <<call.a>>

\* C9: buildStarCriteria(text, column) with a non-empty text containing '*'
\* appends one ' and column like $N' and pushes the text with every '%'
\* replaced by '\%' and then every '*' by '%', so that the number of unescaped
\* '%' in the parameter equals the number of '*' in text; a non-empty text
\* without '*' gives an equality clause and the text unchanged; an empty text
\* is a no-op.
C9_BuildStarCriteria ==
    (call.op = "buildStarCriteria" /\ call.a.t # "number") =>
        /\ StarClauseAsDescribed
        /\ (~EmptyValue(call.a) /\ CountChar(call.a.s, "*") > 0)
           => UnescapedPercents(params[Len(params)].s) = CountChar(call.a.s, "*")

\* C9 without the count of unescaped percent signs: holds of the code
C9_RewriteOnly ==
    (call.op = "buildStarCriteria" /\ call.a.t # "number") => StarClauseAsDescribed

\* a LIKE pattern read with backslash as the escape character, reduced to
\* its percent signs: "any" for a wildcard, "%" for a literal percent sign
RECURSIVE ReadLike(_)
ReadLike(x) ==
    IF x = <<>> THEN <<>>
    ELSE IF Head(x) = "\\"
    THEN (IF Len(x) >= 2
          THEN (IF x[2] = "%" THEN <<"%">> ELSE <<>>) \o ReadLike(Tail(Tail(x)))
          ELSE <<>>)
    ELSE (IF Head(x) = "%" THEN <<"any">> ELSE <<>>) \o ReadLike(Tail(x))

\* what the text asks for: a wildcard per '*', a literal per '%', in order
RECURSIVE AskedLike(_)
AskedLike(x) ==
    IF x = <<>> THEN <<>>
    ELSE (CASE Head(x) = "*" -> <<"any">>
            [] Head(x) = "%" -> <<"%">>
            [] OTHER -> <<>>) \o AskedLike(Tail(x))

\* C36: for every text containing '*', in the LIKE parameter of
\* buildStarCriteria read with backslash as the escape character, every
\* percent sign of the text is matched literally and the percent wildcards
\* are exactly at the places of the text's '*', backslashes in the text
\* included.
C36_StarEscaping ==
    (/\ call.op = "buildStarCriteria"
     /\ call.a.t = "string"
     /\ CountChar(call.a.s, "*") > 0) =>
        /\ Len(params) = Len(call.preParams) + 1
        /\ ReadLike(params[Len(params)].s) = AskedLike(call.a.s)

\* C36 for texts without a backslash: holds of the code
C36_NoBackslash ==
    (/\ call.op = "buildStarCriteria"
     /\ call.a.t = "string"
     /\ CountChar(call.a.s, "*") > 0
     /\ CountChar(call.a.s, "\\") = 0) =>
        /\ Len(params) = Len(call.preParams) + 1
        /\ ReadLike(params[Len(params)].s) = AskedLike(call.a.s)

\* C10: buildRangeCriteria(from, to, column): a non-empty from appends
\* ' and column >= $N' and pushes from; a non-empty to appends
\* ' and column < $M' and pushes to; either, both or neither is added; with
\* both the lower bound comes first and M = N + 1; as many parameters are
\* added as fragments.
C10_BuildRangeCriteria ==
    call.op = "buildRangeCriteria" =>
        LET hasFrom == ~EmptyValue(call.a)
            hasTo == ~EmptyValue(call.b)
            n == Len(call.preParams) + 1
            m == IF hasFrom THEN n + 1 ELSE n
        IN  /\ PrefixKept
            /\ ~call.threw
            /\ AppendedClauses
                 = (IF hasFrom THEN <<ClauseRead(call.field, " >= ", n)>> ELSE <<>>)
                   \o (IF hasTo THEN <<ClauseRead(call.field, " < ", m)>> ELSE <<>>)
            /\ AppendedParams
                 = (IF hasFrom THEN <<call.a>> ELSE <<>>)
                   \o (IF hasTo THEN <<call.b>> ELSE <<>>)
            /\ Len(AppendedParams) = Len(AppendedClauses)

\* both bounds given on a criteria that already holds a parameter
C10_Witness ==
    /\ call.op = "buildRangeCriteria"
    /\ call.a = Num(0) /\ call.b = Str(<<"a">>)
    /\ Len(call.preParams) = 1
    /\ Len(params) = 3

(***************************************************************************)
(* Pagination engine: CommonSearchCriteria.paginationQuery,                *)
(* DBConnection.quickSearch, CommonDAO.quickSearch                         *)
(*                                                                         *)
(* The driver is modelled by what the engine expects of it: it evaluates   *)
(* the SQL text it receives over a table and answers, or rejects.          *)
(***************************************************************************)

\* rows of the table the driver queries
TableSize == 26

\* pagination calls made on one criteria object
MaxCalls == 2

DEFAULT_ROWS_PAGE == 25

NaN == [t |-> "nan", s |-> <<>>, n |-> 0]

\* String(number) of an integer
NumToStr(k) == IF k < 0 THEN <<"-">> \o Dec(-k) ELSE Dec(k)

\* parseInt(v): the argument as a string, leading blanks skipped, an optional
\* sign and the leading digits; NaN without a digit (null, undefined included)
ParseInt(v) ==
    LET txt == IF v.t = "string" THEN TrimLeft(v.s)
               ELSE IF v.t = "number" THEN NumToStr(v.n)
               ELSE <<>>
        neg == txt # <<>> /\ Head(txt) = "-"
        body == IF neg THEN Tail(txt) ELSE txt
        d == LeadDigits(body)
    IN  IF d = 0 THEN NaN
        ELSE Num((IF neg THEN -1 ELSE 1) * ParseDec(SubSeq(body, 1, d)))

\* a > b of JavaScript for a number-or-NaN a and an integer b
GtOrEqual(a, b) == a.t = "number" /\ a.n >= b
Gt(a, b) == a.t = "number" /\ a.n > b

\* what conn.find resolves with: the first row of the result, or null
NoRow == [row |-> FALSE, cc |-> Undefined]
Row(cc) == [row |-> TRUE, cc |-> cc]

\* CommonSearchCriteria.queryCount: result == null ? 0 : parseInt(result['cc'])
QueryCount(result) == IF ~result.row THEN Num(0) ELSE ParseInt(result.cc)

\* DBConnection.getCount / CommonDAO.getCount with key 'cc'
GetCount(data) ==
    LET v == IF ~data.row THEN Null ELSE data.cc
    IN  IF v.t \in {"null", "undefined"} THEN Num(0) ELSE ParseInt(v)

\* `select count(*) as cc from (${sql}) a`
CountSQL(body) == <<"select count(*) as cc from (">> \o body \o <<") a">>

\* DBConnection.getRowSetLimitClause: ` limit ${rowCount} offset ${offset}`
GetRowSetLimitClauseBound(rowCount, offset) ==
    <<" limit ", "$", "1", " offset ", "$", "2">>
GetRowSetLimitClause(rowCount, offset) ==
    <<" limit ">> \o NumToStr(rowCount) \o <<" offset ">> \o NumToStr(offset)

\* the orderBy the criteria subclass of the model sets
OrderBy == <<"order by age">>

\* paginationQuery: `${this.sql} ${this.orderBy} ${limit clause} `
ListSQL(body, rows, offset) ==
    body \o <<" ">> \o OrderBy \o <<" ">> \o GetRowSetLimitClause(rows, offset)
         \o <<" ">>

\* DBConnection.quickSearch: `${sql} ${limit clause}`
QuickListSQL(body, rowCount, offset) ==
    body \o <<" ">> \o GetRowSetLimitClause(rowCount, offset)

\* CommonDAO.quickSearch: `${sql} offset ${offset} limit ${rowCount}`
DaoListSQL(body, rowCount, offset) ==
    body \o <<" offset ">> \o NumToStr(offset) \o <<" limit ">>
         \o NumToStr(rowCount)

\* paginationQuery: offset = (pageNo - 1) * rows
OffsetPageIndex(pageNo, rows) == pageNo - 1
Offset(pageNo, rows) == (pageNo - 1) * rows

\* DBConnection.quickSearch: pageNo = pageNo < 1 ? 1 : pageNo
ClampPage(pageNo) == IF pageNo < 1 THEN 1 ELSE pageNo

\* a hasMore that counts a page ending exactly at the count as having more
HasMoreInclusive(offset, rows, count) == offset + rows <= count
\* paginationQuery: hasMore = offset + rows < count
HasMore(offset, rows, count) == offset + rows < count

\* paginationQuery: pages = Math.floor((count - 1) / rows) + 1
PagesByDivision(count, rows) == (count \div rows) + 1
Pages(count, rows) == ((count - 1) \div rows) + 1

(***************************************************************************)
(* The driver: fetchData evaluates the SQL text over Table                 *)
(***************************************************************************)

\* the table: ages 1..TableSize, names alternating
Table ==
    [k \in 1..TableSize |->
        [name |-> IF k % 2 = 1 THEN <<"a">> ELSE <<"b">>, age |-> k]]

IsCountSQL(q) ==
    /\ Len(q) >= 2
    /\ q[1] = "select count(*) as cc from ("
    /\ q[Len(q)] = ") a"
Inner(q) == IF IsCountSQL(q) THEN SubSeq(q, 2, Len(q) - 1) ELSE q

\* how many pieces of a text its leading well-formed clauses take
RECURSIVE ClauseRunLen(_)
ClauseRunLen(q) ==
    IF Len(q) >= 5 /\ q[1] = " and " /\ q[4] = "$" /\ IsDigit(q[5])
    THEN LET d == LeadDigits(SubSeq(q, 5, Len(q)))
         IN  4 + d + ClauseRunLen(SubSeq(q, 5 + d, Len(q)))
    ELSE 0

NotBlank(tok) == tok # " "

\* an integer literal at the start of a text
ReadInt(q) ==
    LET neg == q # <<>> /\ Head(q) = "-"
        body == IF neg THEN Tail(q) ELSE q
        d == LeadDigits(body)
    IN  [ok |-> d > 0,
         val |-> IF d = 0 THEN 0
                 ELSE (IF neg THEN -1 ELSE 1) * ParseDec(SubSeq(body, 1, d)),
         len |-> d + (IF neg THEN 1 ELSE 0)]

\* the LIMIT/OFFSET window at the end of a statement, in either order; a
\* negative LIMIT or OFFSET is an error of the database
ReadWindow(t) ==
    IF t = <<>> THEN [ok |-> TRUE, limited |-> FALSE, limit |-> 0, offset |-> 0]
    ELSE IF Head(t) \notin {" limit ", " offset "}
    THEN [ok |-> FALSE, limited |-> FALSE, limit |-> 0, offset |-> 0]
    ELSE LET a == ReadInt(Tail(t))
             rest == SubSeq(t, 2 + a.len, Len(t))
             other == IF Head(t) = " limit " THEN " offset " ELSE " limit "
             second == rest # <<>> /\ Head(rest) = other
             b == IF second THEN ReadInt(Tail(rest))
                  ELSE [ok |-> FALSE, val |-> 0, len |-> 0]
             lim == IF Head(t) = " limit " THEN a.val ELSE b.val
             off == IF Head(t) = " limit " THEN b.val ELSE a.val
         IN  [ok |-> a.ok /\ b.ok /\ Len(rest) = 1 + b.len /\ lim >= 0 /\ off >= 0,
              limited |-> TRUE, limit |-> lim, offset |-> off]

\* does a row satisfy the clause `field op $ph` under the bound parameters
Holds(r, cl, p) ==
    LET v == p[cl.ph] IN
    IF cl.field = "age" /\ v.t = "number"
    THEN CASE cl.op = " = " -> r.age = v.n
           [] cl.op = " >= " -> r.age >= v.n
           [] cl.op = " < " -> r.age < v.n
           [] OTHER -> FALSE
    ELSE IF cl.field = "name" /\ v.t = "string"
    THEN cl.op = " = " /\ r.name = v.s
    ELSE FALSE

Min(a, b) == IF a < b THEN a ELSE b

\* fetchData(sql, params): the statement is the base select, appended clauses,
\* an optional order by and an optional LIMIT/OFFSET window, possibly wrapped
\* in the count select; anything else, or a placeholder without a parameter,
\* is rejected by the database
FetchData(q, p) ==
    LET inner == Inner(q)
        headed == inner # <<>> /\ Head(inner) = BaseSQL[1]
        body == IF headed THEN Tail(inner) ELSE <<>>
        n == ClauseRunLen(body)
        cl == ParseClauses(SubSeq(body, 1, n))
        rest == SelectSeq(SubSeq(body, n + 1, Len(body)), NotBlank)
        win == ReadWindow(IF rest # <<>> /\ Head(rest) = OrderBy[1]
                          THEN Tail(rest) ELSE rest)
        bound == \A k \in 1..Len(cl) : cl[k].ph \in 1..Len(p)
        ok == headed /\ win.ok /\ bound
        Hit(r) == \A k \in 1..Len(cl) : Holds(r, cl[k], p)
        hits == IF ok THEN SelectSeq(Table, Hit) ELSE <<>>
        shown == IF ok /\ win.limited
                 THEN SubSeq(hits, win.offset + 1,
                             Min(Len(hits), win.offset + win.limit))
                 ELSE hits
    IN  [ok |-> ok, count |-> Len(shown), rows |-> shown]

(***************************************************************************)
(* Result materializer: DBConnection.toCamel, setNestObj, resultToList,    *)
(* listQuery                                                               *)
(*                                                                         *)
(* Objects live on a heap: heap[id] maps attribute names to values, and a  *)
(* value is a primitive or a reference to an object. A name is the         *)
(* sequence of its characters.                                             *)
(***************************************************************************)

\* most rows of a result set
MaxRows == 2

Ref(id) == [t |-> "object", s |-> <<>>, n |-> id]
EmptyObj == [a \in {} |-> Null]

\* obj[attr] = v
SetAttr(o, attr, v) ==
    [x \in (DOMAIN o) \cup {attr} |-> IF x = attr THEN v ELSE o[x]]

\* obj[attr], undefined when the object has no such attribute
GetAttr(o, attr) == IF attr \in DOMAIN o THEN o[attr] ELSE Undefined

\* \w of the regular expressions, over the characters of the model
WordChars == {"a", "b", "A", "B", "_"}

\* String.prototype.toUpperCase on one character
ToUpperCase(ch) ==
    CASE ch = "a" -> "A"
      [] ch = "b" -> "B"
      [] OTHER -> ch

\* toCamel: name.replace(/\_(\w)/g, (all, letter) => letter.toUpperCase())
RECURSIVE ToCamel(_)
ToCamel(name) ==
    IF name = <<>> THEN <<>>
    ELSE IF Head(name) = "_" /\ Len(name) >= 2 /\ name[2] \in WordChars
    THEN <<ToUpperCase(name[2])>> \o ToCamel(SubSeq(name, 3, Len(name)))
    ELSE <<Head(name)>> \o ToCamel(Tail(name))

\* field.split('.')
RECURSIVE Split(_)
Split(field) ==
    IF \A i \in 1..Len(field) : field[i] # "."
    THEN <<field>>
    ELSE LET dot == CHOOSE i \in 1..Len(field) :
                        field[i] = "." /\ \A j \in 1..(i - 1) : field[j] # "."
         IN  <<SubSeq(field, 1, dot - 1)>> \o Split(SubSeq(field, dot + 1, Len(field)))

Stored(h) == [heap |-> h, threw |-> FALSE]
TypeError(h) == [heap |-> h, threw |-> TRUE]

\* the loop and the final assignment of setNestObj, nestObj being heap[id]:
\*   nestObj[attr] = nestObj[attr] ?? {}; nestObj = nestObj[attr]; ...
\*   nestObj[attr] = value
\* a property cannot be created on a primitive: strict-mode code throws
RECURSIVE Walk(_, _, _, _)
Walk(h, id, attrs, value) ==
    LET attr == ToCamel(Head(attrs))
        cur == GetAttr(h[id], attr)
        fresh == Len(h) + 1
    IN  IF Len(attrs) = 1
        THEN Stored([h EXCEPT ![id] = SetAttr(h[id], attr, value)])
        ELSE IF cur.t \in {"null", "undefined"}
        THEN Walk(Append([h EXCEPT ![id] = SetAttr(h[id], attr, Ref(fresh))], EmptyObj),
                  fresh, Tail(attrs), value)
        ELSE IF cur.t = "object"
        THEN Walk(h, cur.n, Tail(attrs), value)
        ELSE TypeError(h)

\* setNestObj without its guard: null and undefined are assigned like values
SetNestObjAnyValue(h, id, field, value) == Walk(h, id, Split(field), value)

\* a setNestObj whose guard covers the final assignment only: the loop over
\* the intermediates runs for null and undefined too
RECURSIVE WalkParents(_, _, _)
WalkParents(h, id, attrs) ==
    LET attr == ToCamel(Head(attrs))
        cur == GetAttr(h[id], attr)
        fresh == Len(h) + 1
    IN  IF Len(attrs) = 1
        THEN Stored(h)
        ELSE IF cur.t \in {"null", "undefined"}
        THEN WalkParents(Append([h EXCEPT ![id] = SetAttr(h[id], attr, Ref(fresh))],
                                EmptyObj),
                         fresh, Tail(attrs))
        ELSE IF cur.t = "object"
        THEN WalkParents(h, cur.n, Tail(attrs))
        ELSE TypeError(h)
SetNestObjParentsFirst(h, id, field, value) ==
    IF value.t \in {"null", "undefined"} THEN WalkParents(h, id, Split(field))
    ELSE Walk(h, id, Split(field), value)

\* setNestObj(obj, field, value)
SetNestObj(h, id, field, value) ==
    IF value.t \in {"null", "undefined"} THEN Stored(h)
    ELSE Walk(h, id, Split(field), value)

\* row[key]
RowValue(row, key) == IF key \in DOMAIN row THEN row[key] ELSE Undefined

\* fields.forEach((value, key) => this.setNestObj(obj, value, row[key]))
RECURSIVE FillObj(_, _, _, _)
FillObj(h, id, fields, row) ==
    IF fields = <<>> THEN Stored(h)
    ELSE LET r == SetNestObj(h, id, Head(fields).path,
                             RowValue(row, Head(fields).key))
         IN  IF r.threw THEN r ELSE FillObj(r.heap, id, Tail(fields), row)

\* one object declared outside the loop and filled by every row
RowObjectShared(h, list) ==
    IF list = <<>> THEN [heap |-> Append(h, EmptyObj), id |-> Len(h) + 1]
    ELSE [heap |-> h, id |-> list[1]]

\* let obj = {}  in the body of the loop over the rows
RowObject(h, list) == [heap |-> Append(h, EmptyObj), id |-> Len(h) + 1]

\* result.rows.forEach(row => { let obj = {}; ...; list.push(obj) })
RECURSIVE RowsToList(_, _, _, _)
RowsToList(h, fields, rows, list) ==
    IF rows = <<>> THEN [heap |-> h, threw |-> FALSE, list |-> list]
    ELSE LET obj == RowObject(h, list)
             r == FillObj(obj.heap, obj.id, fields, Head(rows))
         IN  IF r.threw THEN [heap |-> r.heap, threw |-> TRUE, list |-> list]
             ELSE RowsToList(r.heap, fields, Tail(rows), Append(list, obj.id))

\* resultToList(result), fields being buildFieldsMap(result.fields)
ResultToList(h, result) == RowsToList(h, result.fields, result.rows, <<>>)

\* the post-construction hooks of the model: none, or one that counts its
\* invocations on the object:  data => { data.n = (data.n ?? 0) + 1 }
Hooks == {"none", "count"}
HookAttr == <<"n">>
HookedTimes(o) == IF HookAttr \in DOMAIN o THEN o[HookAttr].n ELSE 0
ApplyHook(h, id) ==
    [h EXCEPT ![id] = SetAttr(h[id], HookAttr, Num(HookedTimes(h[id]) + 1))]

\* list.forEach(data => postConstruction(data))
RECURSIVE ForEachHook(_, _, _)
ForEachHook(h, list, hooked) ==
    IF list = <<>> THEN [heap |-> h, hooked |-> hooked]
    ELSE ForEachHook(ApplyHook(h, Head(list)), Tail(list), Append(hooked, Head(list)))

\* listQuery with a hook that reaches the first element only
ListQueryHookFirstOnly(h, result, post) ==
    LET made == ResultToList(h, result)
        after == IF post = "none" \/ made.threw
                 THEN [heap |-> made.heap, hooked |-> <<>>]
                 ELSE ForEachHook(made.heap, SubSeq(made.list, 1, 1), <<>>)
    IN  [heap |-> after.heap, threw |-> made.threw,
         list |-> IF made.threw THEN <<>> ELSE made.list,
         hooked |-> after.hooked]

\* listQuery once fetchData resolved with result: resultToList, then the hook
\* on every element when one was supplied; hooked is the sequence of objects
\* the hook was invoked with
ListQuery(h, result, post) ==
    LET made == ResultToList(h, result)
        after == IF post = "none" \/ made.threw
                 THEN [heap |-> made.heap, hooked |-> <<>>]
                 ELSE ForEachHook(made.heap, made.list, <<>>)
    IN  [heap |-> after.heap, threw |-> made.threw,
         list |-> IF made.threw THEN <<>> ELSE made.list,
         hooked |-> after.hooked]

\* the objects reachable from object id, itself included
RECURSIVE Reach(_, _)
Reach(h, ids) ==
    LET more == ids \cup UNION {{h[i][a].n : a \in {b \in DOMAIN h[i] : h[i][b].t = "object"}} :
                                i \in ids}
    IN  IF more = ids THEN ids ELSE Reach(h, more)

\* the value of object id: its attributes, nested objects by value
RECURSIVE Deref(_, _)
Deref(h, id) ==
    [obj |-> [a \in DOMAIN h[id] |->
                 IF h[id][a].t = "object" THEN Deref(h, h[id][a].n) ELSE h[id][a]]]

\* a listQuery call as the scenarios record it: the list returned, the
\* objects the hook was invoked with, the heap before and after, and the
\* values of the objects after materialization (made, from m) and on return
ListCall(h, r, m, post, by) ==
    [list |-> r.list, threw |-> r.threw, hooked |-> r.hooked, post |-> post,
     by |-> by, base |-> Len(h), top |-> Len(r.heap),
     made |-> IF m.threw THEN <<>>
              ELSE [k \in 1..Len(m.list) |-> Deref(m.heap, m.list[k])],
     values |-> [k \in 1..Len(r.list) |-> Deref(r.heap, r.list[k])]]

(***************************************************************************)
(* The pagination calls, one step per await                                *)
(***************************************************************************)

PageNumbers == 0..3
RowCounts == {1, 2, DEFAULT_ROWS_PAGE}
NameValues == {Null, Str(<<"a">>)}
FromValues == {Null, Num(2)}
ToValues == {Null, Num(1), Num(2), Num(4), Num(TableSize + 1)}

\* the criteria objects a caller constructs, hook included
CriteriaObjects ==
    [page : PageNumbers, rows : RowCounts, name : NameValues,
     from : FromValues, to : ToValues, post : Hooks]

\* criteria classes that do not override getPostConstructor
PlainCriteria == {c \in CriteriaObjects : c.post = "none"}
\* criteria asking for the first page of the default size
FirstPageCriteria == {c \in PlainCriteria : c.page = 1 /\ c.rows = DEFAULT_ROWS_PAGE}
\* criteria of either kind without a range
RangelessCriteria == {c \in CriteriaObjects : c.from = Null /\ c.to = Null}

\* getPostConstructor(): null unless a subclass overrides it
GetPostConstructor(c) == c.post

\* the result set the driver hands to resultToList for rows of Table, with
\* the identity mapping of buildFieldsMap
NameOf == <<"n", "a", "m", "e">>
AgeOf == <<"a", "g", "e">>
TableResult(rows) ==
    [fields |-> <<[key |-> "name", path |-> NameOf], [key |-> "age", path |-> AgeOf]>>,
     rows |-> [k \in 1..Len(rows) |->
                  [name |-> Str(rows[k].name), age |-> Num(rows[k].age)]]]

\* the shapes in which a driver hands back the row of the count query
CountShapes == {"number", "string", "noRow", "noCc", "nullCc"}
CountAnswer(shape, n) ==
    CASE shape = "number" -> Row(Num(n))
      [] shape = "string" -> Row(Str(Dec(n)))
      [] shape = "noRow" -> NoRow
      [] shape = "noCc" -> Row(Undefined)
      [] shape = "nullCc" -> Row(Null)

Query(kind, q, p) == [kind |-> kind, sql |-> q, params |-> p]

PageOut(count, hasMore, list, pages) ==
    [kind |-> "returned", err |-> "", count |-> count, hasMore |-> hasMore,
     list |-> list, pages |-> pages]
QuickOut(list, hasMore) ==
    [kind |-> "returned", err |-> "", count |-> Undefined, hasMore |-> hasMore,
     list |-> list, pages |-> 0]
Rejected(e) ==
    [kind |-> "threw", err |-> e, count |-> Undefined, hasMore |-> FALSE,
     list |-> <<>>, pages |-> 0]

\* the buildDynamicQuery override of the model's criteria subclass:
\*   this.buildCriteria(criteria.name, 'name');
\*   this.buildRangeCriteria(criteria.from, criteria.to, 'age');
BuildDynamicQuery(c, cr) ==
    LET r1 == BuildCriteria(c, cr.name, "name")
        r2 == BuildRangeCriteria(Criteria(r1.sql, r1.params), cr.from, cr.to, "age")
    IN  [r2 EXCEPT !.added = r1.added \o r2.added]

\* paginationQuery up to its first await: the hook runs, then the count query
\* is built from the sql and params the hook left
IssueCountBeforeHook(c, cr) ==
    LET r == BuildDynamicQuery(c, cr)
    IN  [after |-> r, queries |-> <<Query("count", CountSQL(c.sql), c.params)>>]
IssueCountWithFetch(c, cr) ==
    LET r == BuildDynamicQuery(c, cr)
    IN  [after |-> r,
         queries |-> <<Query("count", CountSQL(r.sql), r.params),
                       Query("fetch", ListSQL(r.sql, cr.rows, Offset(cr.page, cr.rows)),
                             r.params)>>]
\* a paginationQuery that runs the hook on a criteria never built before only
IssueCountHookOnce(c, cr) ==
    LET r == IF c.params = <<>> THEN BuildDynamicQuery(c, cr)
             ELSE Result(c.sql, c.params, Len(c.params) + 1, FALSE, <<>>)
    IN  [after |-> r, queries |-> <<Query("count", CountSQL(r.sql), r.params)>>]
IssueCount(c, cr) ==
    LET r == BuildDynamicQuery(c, cr)
    IN  [after |-> r, queries |-> <<Query("count", CountSQL(r.sql), r.params)>>]

\* the errors a driver raises
DriverErrors == {"E1", "E2"}

\* an error raised inside `await conn.find(...)` / `await conn.listQuery(...)`:
\* there is no try/catch on the way, the caller's promise rejects with it
PropagatedAsGeneric(e) == "Error"
Propagated(e) == e

\* the call in progress ends: the caller observes out; raised is the error
\* the driver raised, if it raised one
FinishWith(out, log, found, count, offset, raised) ==
    /\ done' = Append(done, [variant |-> pq.variant, out |-> out, queries |-> log,
                             found |-> found, count |-> count, offset |-> offset,
                             preSql |-> pq.preSql, preParams |-> pq.preParams,
                             raised |-> raised])
    /\ pq' = NoPq
    /\ queries' = <<>>
Finish(out, log, found, count, offset) ==
    FinishWith(out, log, found, count, offset, "none")

\* the call goes on to its fetch query
IssueFetch(q, found, count, offset) ==
    /\ queries' = Append(queries, q)
    /\ pq' = [pq EXCEPT !.pc = "fetch", !.found = found, !.count = count,
                        !.offset = offset]
    /\ done' = done

\* criteria.paginationQuery(conn) is called
PaginationQuery ==
    /\ pq.pc = "idle"
    /\ Len(done) < MaxCalls
    /\ LET step == IssueCount(Criteria(sql, params), crit) IN
          /\ sql' = step.after.sql
          /\ params' = step.after.params
          /\ intro' = intro \o step.after.added
          /\ queries' = step.queries
    /\ pq' = [NoPq EXCEPT !.pc = "count", !.variant = "criteria",
                          !.preSql = sql, !.preParams = params]
    /\ UNCHANGED <<txVars, call, crit, done, libVars>>

\* the count query of paginationQuery resolves
PaginationCount(shape) ==
    /\ pq.pc = "count"
    /\ pq.variant = "criteria"
    /\ \E res \in {FetchData(queries[1].sql, queries[1].params)} :
       \E found \in {CountAnswer(shape, res.count)} :
       \E count \in {QueryCount(found)} :
       \E rows \in {crit.rows} :
       \E offset \in {Offset(crit.page, rows)} :
          /\ res.ok
          /\ IF Gt(count, 0)
             THEN IF Gt(count, offset)
                  THEN IssueFetch(Query("fetch", ListSQL(sql, rows, offset), params),
                                  found, count, offset)
                  ELSE Finish(PageOut(count, HasMore(offset, rows, count.n), <<>>,
                                      Pages(count.n, rows)),
                              queries, found, count, offset)
             ELSE Finish(PageOut(count, FALSE, <<>>, 0), queries, found, count, 0)
    /\ UNCHANGED <<txVars, critVars, crit, libVars>>

\* the fetch query of paginationQuery resolves
PaginationFetch ==
    /\ pq.pc = "fetch"
    /\ pq.variant = "criteria"
    /\ \E res \in {FetchData(queries[2].sql, queries[2].params)} :
          /\ res.ok
          /\ \E r \in {ListQuery(heap, TableResult(res.rows), GetPostConstructor(crit))},
                m \in {ResultToList(heap, TableResult(res.rows))} :
                /\ heap' = r.heap
                /\ mat' = [mat EXCEPT !.calls =
                              Append(@, ListCall(heap, r, m, GetPostConstructor(crit),
                                                 Len(done) + 1))]
          /\ Finish(PageOut(pq.count, HasMore(pq.offset, crit.rows, pq.count.n),
                            res.rows, Pages(pq.count.n, crit.rows)),
                    queries, pq.found, pq.count, pq.offset)
    /\ UNCHANGED <<txVars, critVars, crit, script, beans, mgr, ctor, bits>>

\* the query in flight rejects: the database refused the statement, or the
\* driver failed; no handler, the call rejects with that error
QueryRejected(e) ==
    /\ pq.pc \in {"count", "fetch"}
    /\ FinishWith(Rejected(Propagated(e)), queries, pq.found, pq.count, pq.offset, e)
    /\ UNCHANGED <<txVars, critVars, crit, libVars>>

PageInit ==
    /\ pc = [i \in Invocations |-> "idle"]
    /\ mode = [i \in Invocations |-> "none"]
    /\ conn = [i \in Invocations |-> NoConn]
    /\ issued = <<>>
    /\ trace = [i \in Invocations |-> <<>>]
    /\ ex = [i \in Invocations |-> "none"]
    /\ completion = [i \in Invocations |-> None]
    /\ outcome = [i \in Invocations |-> None]
    /\ workArg = [i \in Invocations |-> NoConn]
    /\ workEnd = [i \in Invocations |-> None]
    /\ sql = BaseSQL
    /\ params = <<>>
    /\ call = NoCall
    /\ intro = <<>>
    /\ crit \in PlainCriteria
    /\ pq = NoPq
    /\ queries = <<>>
    /\ done = <<>>
    /\ heap = <<>>
    /\ mat = NoMat
    /\ script = NoScript
    /\ beans = NoBeans
    /\ mgr = NoMgr
    /\ ctor = NoCtor
    /\ bits = NoBits

PageNext ==
    \/ PaginationQuery
    \/ \E shape \in CountShapes : PaginationCount(shape)
    \/ PaginationFetch
    \/ \E e \in DriverErrors : QueryRejected(e)

SpecPage == PageInit /\ [][PageNext]_vars

\* repeated calls for the first page on one criteria object, whatever its hook
\* contributes
AccumInit ==
    /\ pc = [i \in Invocations |-> "idle"]
    /\ mode = [i \in Invocations |-> "none"]
    /\ conn = [i \in Invocations |-> NoConn]
    /\ issued = <<>>
    /\ trace = [i \in Invocations |-> <<>>]
    /\ ex = [i \in Invocations |-> "none"]
    /\ completion = [i \in Invocations |-> None]
    /\ outcome = [i \in Invocations |-> None]
    /\ workArg = [i \in Invocations |-> NoConn]
    /\ workEnd = [i \in Invocations |-> None]
    /\ sql = BaseSQL
    /\ params = <<>>
    /\ call = NoCall
    /\ intro = <<>>
    /\ crit \in FirstPageCriteria
    /\ pq = NoPq
    /\ queries = <<>>
    /\ done = <<>>
    /\ heap = <<>>
    /\ mat = NoMat
    /\ script = NoScript
    /\ beans = NoBeans
    /\ mgr = NoMgr
    /\ ctor = NoCtor
    /\ bits = NoBits

AccumNext ==
    \/ PaginationQuery
    \/ \E shape \in CountShapes : PaginationCount(shape)
    \/ PaginationFetch
    \/ \E e \in DriverErrors : QueryRejected(e)

SpecAccum == AccumInit /\ [][AccumNext]_vars

\* the same calls on criteria classes with and without a post-constructor
HookInit ==
    /\ pc = [i \in Invocations |-> "idle"]
    /\ mode = [i \in Invocations |-> "none"]
    /\ conn = [i \in Invocations |-> NoConn]
    /\ issued = <<>>
    /\ trace = [i \in Invocations |-> <<>>]
    /\ ex = [i \in Invocations |-> "none"]
    /\ completion = [i \in Invocations |-> None]
    /\ outcome = [i \in Invocations |-> None]
    /\ workArg = [i \in Invocations |-> NoConn]
    /\ workEnd = [i \in Invocations |-> None]
    /\ sql = BaseSQL
    /\ params = <<>>
    /\ call = NoCall
    /\ intro = <<>>
    /\ crit \in RangelessCriteria
    /\ pq = NoPq
    /\ queries = <<>>
    /\ done = <<>>
    /\ heap = <<>>
    /\ mat = NoMat
    /\ script = NoScript
    /\ beans = NoBeans
    /\ mgr = NoMgr
    /\ ctor = NoCtor
    /\ bits = NoBits

HookNext ==
    \/ PaginationQuery
    \/ \E shape \in CountShapes : PaginationCount(shape)
    \/ PaginationFetch
    \/ \E e \in DriverErrors : QueryRejected(e)

SpecHook == HookInit /\ [][HookNext]_vars

(***************************************************************************)
(* quickSearch of a connection and of a DAO: raw SQL, parameters, page     *)
(* number and page size handed in by the caller                            *)
(***************************************************************************)

\* conn.quickSearch(sql, params, pageNo, rowCount) is called: the page number
\* is clamped, the offset computed, the count query issued
QuickSearch ==
    /\ pq.pc = "idle"
    /\ done = <<>>
    /\ queries' = <<Query("count", CountSQL(sql), params)>>
    /\ pq' = [NoPq EXCEPT !.pc = "count", !.variant = "conn",
                          !.offset = Offset(ClampPage(crit.page), crit.rows),
                          !.preSql = sql, !.preParams = params]
    /\ UNCHANGED <<txVars, critVars, crit, done, libVars>>

\* the count query of conn.quickSearch resolves
QuickCount(shape) ==
    /\ pq.pc = "count"
    /\ pq.variant = "conn"
    /\ \E res \in {FetchData(queries[1].sql, queries[1].params)} :
       \E found \in {CountAnswer(shape, res.count)} :
       \E count \in {GetCount(found)} :
          /\ res.ok
          /\ IF Gt(count, 0) /\ Gt(count, pq.offset)
             THEN IssueFetch(Query("fetch", QuickListSQL(sql, crit.rows, pq.offset),
                                   params),
                             found, count, pq.offset)
             ELSE Finish(QuickOut(<<>>, FALSE), queries, found, count, pq.offset)
    /\ UNCHANGED <<txVars, critVars, crit, libVars>>

\* the fetch query of conn.quickSearch resolves: hasMore = list.length < count
QuickFetch ==
    /\ pq.pc = "fetch"
    /\ pq.variant = "conn"
    /\ \E res \in {FetchData(queries[2].sql, queries[2].params)} :
          /\ res.ok
          /\ Finish(QuickOut(res.rows, Len(res.rows) < pq.count.n),
                    queries, pq.found, pq.count, pq.offset)
    /\ UNCHANGED <<txVars, critVars, crit, libVars>>

\* dao.quickSearch(conn, sql, params, pageNo, rowCount) is called: the count
\* query is issued
DaoQuickSearch ==
    /\ pq.pc = "idle"
    /\ done = <<>>
    /\ queries' = <<Query("count", CountSQL(sql), params)>>
    /\ pq' = [NoPq EXCEPT !.pc = "count", !.variant = "dao",
                          !.preSql = sql, !.preParams = params]
    /\ UNCHANGED <<txVars, critVars, crit, done, libVars>>

\* the count query of dao.quickSearch resolves: offset = (pageNo - 1) * rowCount,
\* the page is fetched when count > offset
DaoCount(shape) ==
    /\ pq.pc = "count"
    /\ pq.variant = "dao"
    /\ \E res \in {FetchData(queries[1].sql, queries[1].params)} :
       \E found \in {CountAnswer(shape, res.count)} :
       \E count \in {GetCount(found)} :
       \E offset \in {Offset(crit.page, crit.rows)} :
          /\ res.ok
          /\ IF Gt(count, offset)
             THEN IssueFetch(Query("fetch", DaoListSQL(sql, crit.rows, offset),
                                   params),
                             found, count, offset)
             ELSE Finish(QuickOut(<<>>, FALSE), queries, found, count, offset)
    /\ UNCHANGED <<txVars, critVars, crit, libVars>>

\* the fetch query of dao.quickSearch resolves:
\* hasMore = list.length + offset < count
DaoFetch ==
    /\ pq.pc = "fetch"
    /\ pq.variant = "dao"
    /\ \E res \in {FetchData(queries[2].sql, queries[2].params)} :
          /\ res.ok
          /\ Finish(QuickOut(res.rows, Len(res.rows) + pq.offset < pq.count.n),
                    queries, pq.found, pq.count, pq.offset)
    /\ UNCHANGED <<txVars, critVars, crit, libVars>>

\* the caller built the SQL body and the parameters from its criteria object
QuickInit ==
    /\ pc = [i \in Invocations |-> "idle"]
    /\ mode = [i \in Invocations |-> "none"]
    /\ conn = [i \in Invocations |-> NoConn]
    /\ issued = <<>>
    /\ trace = [i \in Invocations |-> <<>>]
    /\ ex = [i \in Invocations |-> "none"]
    /\ completion = [i \in Invocations |-> None]
    /\ outcome = [i \in Invocations |-> None]
    /\ workArg = [i \in Invocations |-> NoConn]
    /\ workEnd = [i \in Invocations |-> None]
    /\ crit \in PlainCriteria
    /\ \E built \in {BuildDynamicQuery(Criteria(BaseSQL, <<>>), crit)} :
          /\ sql = built.sql
          /\ params = built.params
          /\ intro = built.added
    /\ call = NoCall
    /\ pq = NoPq
    /\ queries = <<>>
    /\ done = <<>>
    /\ heap = <<>>
    /\ mat = NoMat
    /\ script = NoScript
    /\ beans = NoBeans
    /\ mgr = NoMgr
    /\ ctor = NoCtor
    /\ bits = NoBits

QuickNext ==
    \/ QuickSearch
    \/ \E shape \in CountShapes : QuickCount(shape)
    \/ QuickFetch
    \/ DaoQuickSearch
    \/ \E shape \in CountShapes : DaoCount(shape)
    \/ DaoFetch
    \/ \E e \in DriverErrors : QueryRejected(e)

SpecQuick == QuickInit /\ [][QuickNext]_vars

(***************************************************************************)
(* criteria.query(conn) and conn.queryByCriteria(criteria): the query      *)
(* without pagination, next to paginationQuery on the same criteria object *)
(***************************************************************************)

\* `${this.sql} ${this.orderBy}`
AllSQL(body) == body \o <<" ">> \o OrderBy

\* what criteria.query resolves with: the list
ListOut(list) ==
    [kind |-> "returned", err |-> "", count |-> Undefined, hasMore |-> FALSE,
     list |-> list, pages |-> 0]

\* query() with the hook run first, as paginationQuery runs it
IssueAllAfterHook(c, cr) ==
    LET r == BuildDynamicQuery(c, cr)
    IN  [after |-> r, queries |-> <<Query("fetch", AllSQL(r.sql), r.params)>>]

\* criteria.query up to its await: conn.listQuery over this.sql and
\* this.params as they are; buildDynamicQuery is not called
IssueAll(c, cr) ==
    [after |-> [sql |-> c.sql, params |-> c.params, added |-> <<>>],
     queries |-> <<Query("fetch", AllSQL(c.sql), c.params)>>]

\* criteria.query(conn) is called, directly or through conn.queryByCriteria
CriteriaQuery ==
    /\ pq.pc = "idle"
    /\ Len(done) < MaxCalls
    /\ LET step == IssueAll(Criteria(sql, params), crit) IN
          /\ sql' = step.after.sql
          /\ params' = step.after.params
          /\ intro' = intro \o step.after.added
          /\ queries' = step.queries
    /\ pq' = [NoPq EXCEPT !.pc = "fetch", !.variant = "query",
                          !.preSql = sql, !.preParams = params]
    /\ UNCHANGED <<txVars, call, crit, done, libVars>>

\* the statement of criteria.query resolves: listQuery without a hook
CriteriaQueryFetch ==
    /\ pq.pc = "fetch"
    /\ pq.variant = "query"
    /\ \E res \in {FetchData(queries[1].sql, queries[1].params)} :
          /\ res.ok
          /\ \E r \in {ListQuery(heap, TableResult(res.rows), "none")},
                m \in {ResultToList(heap, TableResult(res.rows))} :
                /\ heap' = r.heap
                /\ mat' = [mat EXCEPT !.calls =
                              Append(@, ListCall(heap, r, m, "none", Len(done) + 1))]
          /\ Finish(ListOut(res.rows), queries, pq.found, pq.count, pq.offset)
    /\ UNCHANGED <<txVars, critVars, crit, script, beans, mgr, ctor, bits>>

QueryInit ==
    /\ pc = [i \in Invocations |-> "idle"]
    /\ mode = [i \in Invocations |-> "none"]
    /\ conn = [i \in Invocations |-> NoConn]
    /\ issued = <<>>
    /\ trace = [i \in Invocations |-> <<>>]
    /\ ex = [i \in Invocations |-> "none"]
    /\ completion = [i \in Invocations |-> None]
    /\ outcome = [i \in Invocations |-> None]
    /\ workArg = [i \in Invocations |-> NoConn]
    /\ workEnd = [i \in Invocations |-> None]
    /\ sql = BaseSQL
    /\ params = <<>>
    /\ call = NoCall
    /\ intro = <<>>
    /\ crit \in {c \in PlainCriteria : c.page = 1}
    /\ pq = NoPq
    /\ queries = <<>>
    /\ done = <<>>
    /\ heap = <<>>
    /\ mat = NoMat
    /\ script = NoScript
    /\ beans = NoBeans
    /\ mgr = NoMgr
    /\ ctor = NoCtor
    /\ bits = NoBits

QueryNext ==
    \/ CriteriaQuery
    \/ CriteriaQueryFetch
    \/ PaginationQuery
    \/ \E shape \in {"number", "string"} : PaginationCount(shape)
    \/ PaginationFetch
    \/ \E e \in DriverErrors : QueryRejected(e)

SpecQuery == QueryInit /\ [][QueryNext]_vars

(***************************************************************************)
(* Claims about the pagination engine                                      *)
(***************************************************************************)

\* the finished paginationQuery calls, and whether one is in progress
PagedCalls == {k \in 1..Len(done) : done[k].variant = "criteria"}
InPaged == pq.pc # "idle" /\ pq.variant = "criteria"

\* what the hook of the model is to contribute for the criteria object: one
\* clause and one parameter per value that is not empty, in the order of its calls
HookClauses ==
    <<[field |-> "name", op |-> " = ", v |-> crit.name],
      [field |-> "age", op |-> " >= ", v |-> crit.from],
      [field |-> "age", op |-> " < ", v |-> crit.to]>>
Wanted(w) == ~EmptyValue(w.v)
HookWanted == SelectSeq(HookClauses, Wanted)

\* the query q is the count query over preSql followed by the hook's clauses,
\* once, bound to preParams followed by the hook's values
HookedCount(preSql, preParams, q) ==
    LET body == Inner(q.sql)
        n == Len(preParams)
    IN  /\ q.kind = "count"
        /\ IsCountSQL(q.sql)
        /\ Len(body) >= Len(preSql)
        /\ SubSeq(body, 1, Len(preSql)) = preSql
        /\ ParseClauses(SubSeq(body, Len(preSql) + 1, Len(body)))
              = [k \in 1..Len(HookWanted) |->
                    ClauseRead(HookWanted[k].field, HookWanted[k].op, n + k)]
        /\ q.params = preParams \o [k \in 1..Len(HookWanted) |-> HookWanted[k].v]

\* C11: every paginationQuery call invokes buildDynamicQuery exactly once and
\* before the count query: the count query is over the SQL and the parameters
\* as the hook left them, and nothing is appended to them afterwards.
C11_HookOnceBeforeCount ==
    /\ \A k \in PagedCalls :
          HookedCount(done[k].preSql, done[k].preParams, done[k].queries[1])
    /\ InPaged =>
          /\ HookedCount(pq.preSql, pq.preParams, queries[1])
          /\ sql = Inner(queries[1].sql)
          /\ params = queries[1].params
    /\ (pq.pc = "idle" /\ done # <<>>) =>
          /\ sql = Inner(done[Len(done)].queries[1].sql)
          /\ params = done[Len(done)].queries[1].params

\* a second call on a criteria whose hook contributes three clauses went
\* through its count and its fetch
C11_Witness ==
    /\ Len(done) = 2
    /\ Len(HookWanted) = 3
    /\ Len(done[2].preParams) = 3
    /\ Len(done[2].queries) = 2
    /\ done[2].out.kind = "returned"

\* the paginationQuery calls made on the criteria object so far
CallsMade == Cardinality(PagedCalls) + (IF InPaged THEN 1 ELSE 0)

\* C34: every paginationQuery call on the same criteria object re-runs the
\* hook on the accumulated state: after k calls with a hook of m clauses the
\* SQL holds k * m appended clauses and the parameter list k * m values, the
\* clauses of run j are numbered after those of run j - 1, and the
\* placeholders are $1..$n in order for the n parameters after every call.
C34_HookAccumulates ==
    LET cl == ParseClauses(Tail(sql))
        m == Len(HookWanted)
    IN  /\ Head(sql) = Head(BaseSQL)
        /\ Len(cl) = CallsMade * m
        /\ Len(params) = CallsMade * m
        /\ \A j \in 1..CallsMade, i \in 1..m :
              /\ cl[(j - 1) * m + i] =
                    ClauseRead(HookWanted[i].field, HookWanted[i].op, (j - 1) * m + i)
              /\ params[(j - 1) * m + i] = HookWanted[i].v
        /\ \A n \in 1..Len(cl) : cl[n].ph = n

\* two finished calls with a hook of three clauses: six clauses, six values
C34_Witness ==
    /\ Len(done) = 2
    /\ PagedCalls = {1, 2}
    /\ Len(HookWanted) = 3
    /\ Len(params) = 6
    /\ done[2].out.kind = "returned"
    /\ Len(done[2].preParams) = 3

\* a finished call that returned after the driver answered the count query
\* with a row holding the count, as a number or as a string of digits
Answered(d) ==
    /\ d.out.kind = "returned"
    /\ d.found.row
    /\ d.found.cc.t \in {"number", "string"}

\* C12: two paginationQuery calls on the same criteria object, the criteria
\* and the table unchanged in between, return identical count, pages, list and
\* hasMore.
C12_Idempotent ==
    \A j \in PagedCalls, k \in PagedCalls :
        (Answered(done[j]) /\ Answered(done[k])) => done[j].out = done[k].out

\* two answered calls whose hook appended clauses both times: the second
\* statement is longer than the first, and a non-empty page came back
C12_Witness ==
    /\ Len(done) = 2
    /\ Answered(done[1]) /\ Answered(done[2])
    /\ Len(HookWanted) >= 2
    /\ Len(done[2].queries[1].sql) > Len(done[1].queries[1].sql)
    /\ done[1].out.list # <<>>
    /\ done[1].out.hasMore

\* the driver answered the count query with a count of zero
YieldsZero(found) == found = Row(Num(0)) \/ found = Row(Str(<<"0">>))

\* C13: when the count query yields zero, paginationQuery returns exactly
\* {count: 0, hasMore: false, list: [], pages: 0} and issues no fetch query:
\* the driver receives exactly one query in that call.
C13_ZeroCount ==
    /\ \A k \in PagedCalls :
          YieldsZero(done[k].found) =>
              /\ done[k].out = [kind |-> "returned", err |-> "", count |-> Num(0),
                                hasMore |-> FALSE, list |-> <<>>, pages |-> 0]
              /\ Len(done[k].queries) = 1
              /\ done[k].queries[1].kind = "count"
    /\ (InPaged /\ pq.pc = "fetch") => ~YieldsZero(pq.found)

\* counts of zero came back as the number 0 and as the string '0', for a
\* first page and for a page below 1
C13_Witness ==
    /\ Len(done) = 2
    /\ done[1].found = Row(Num(0))
    /\ done[2].found = Row(Str(<<"0">>))
    /\ crit.page = 0
    /\ Len(HookWanted) >= 1

\* the rows of the table the criteria object selects, and how many they are
Selected(r) ==
    /\ EmptyValue(crit.name) \/ r.name = crit.name.s
    /\ EmptyValue(crit.from) \/ r.age >= crit.from.n
    /\ EmptyValue(crit.to) \/ r.age < crit.to.n
TrueList == SelectSeq(Table, Selected)
TrueCount == Len(TrueList)

\* the number of pages of the given size that n rows fill
TruePages(n, size) ==
    CHOOSE p \in 0..n : p * size >= n /\ (p = 0 \/ (p - 1) * size < n)

\* the offset the specification gives for the criteria's page
PageOffset == (crit.page - 1) * crit.rows

\* the driver answered the count query of the finished call d with the count
CountKnown(d) ==
    /\ d.found # Undefined
    /\ d.found.row
    /\ d.found.cc.t \in {"number", "string"}

\* C14: when the count is positive and the offset (pageNumber - 1) * pageSize
\* is at or beyond it, paginationQuery returns, with an empty list and without
\* a fetch query; count and pages are the true totals and hasMore is false.
C14_OffsetBeyondCount ==
    LET n == TrueCount IN
    \A k \in PagedCalls :
        (CountKnown(done[k]) /\ n > 0 /\ PageOffset >= n) =>
            /\ done[k].out = [kind |-> "returned", err |-> "",
                              count |-> Num(n), hasMore |-> FALSE,
                              list |-> <<>>,
                              pages |-> TruePages(n, crit.rows)]
            /\ Len(done[k].queries) = 1
            /\ done[k].queries[1].kind = "count"

\* a page that starts exactly at the count
C14_Witness ==
    /\ Len(done) = 2
    /\ CountKnown(done[1]) /\ CountKnown(done[2])
    /\ TrueCount > 0
    /\ PageOffset >= TrueCount
    /\ PageOffset = TrueCount

\* C15: every paginationQuery result with pageSize >= 1 has
\* pages = floor((count - 1) / pageSize) + 1 when count > 0 and 0 when
\* count = 0, and hasMore = (offset + pageSize < count) with
\* offset = (pageNumber - 1) * pageSize; count 1 with page size 25 gives one
\* page and hasMore false; count 26, page size 25, page 2 gives a one-row
\* page, pages 2 and hasMore false.
C15_PagesAndHasMore ==
    \A k \in PagedCalls :
        LET out == done[k].out
            n == out.count.n
        IN  (out.kind = "returned" /\ out.count.t = "number" /\ crit.rows >= 1) =>
                /\ n >= 0
                /\ out.pages = IF n > 0 THEN ((n - 1) \div crit.rows) + 1 ELSE 0
                /\ out.pages = TruePages(n, crit.rows)
                /\ out.hasMore = (PageOffset + crit.rows < n)
                /\ (n = 1 /\ crit.rows = 25) => (out.pages = 1 /\ ~out.hasMore)
                /\ (n = 26 /\ crit.rows = 25 /\ crit.page = 2) =>
                      (Len(out.list) = 1 /\ out.pages = 2 /\ ~out.hasMore)

\* 26 rows, page size 25: page 2 came back
C15_Witness ==
    /\ done # <<>>
    /\ done[1].out.kind = "returned"
    /\ done[1].out.count = Num(26)
    /\ crit.rows = 25
    /\ crit.page = 2
    /\ done[1].out.list # <<>>

\* C31: for every paginationQuery result with count > 0, pageNumber >= 1 and
\* pageSize >= 1, hasMore is true exactly when pageNumber < pages.
C31_HasMoreIffLaterPage ==
    \A k \in PagedCalls :
        LET out == done[k].out
        IN  (/\ out.kind = "returned"
             /\ out.count.t = "number"
             /\ out.count.n > 0
             /\ crit.page >= 1
             /\ crit.rows >= 1) =>
                (out.hasMore <=> crit.page < out.pages)

\* a last page that ends exactly at the count, and of more than one page
C31_Witness ==
    /\ done # <<>>
    /\ done[1].out.kind = "returned"
    /\ done[1].out.count.t = "number"
    /\ done[1].out.count.n > 0
    /\ crit.page >= 2
    /\ crit.page * crit.rows = done[1].out.count.n
    /\ crit.page = done[1].out.pages
    /\ ~done[1].out.hasMore
    /\ done[1].out.list # <<>>

\* the query logs of the paginationQuery calls, finished or in progress
PagedLogs ==
    {done[k].queries : k \in PagedCalls} \cup (IF InPaged THEN {queries} ELSE {})

\* the OFFSET a statement carries: the literal after its ' offset ' piece
OffsetLiteral(q) ==
    LET at == CHOOSE i \in 1..Len(q) : q[i] = " offset "
    IN  ReadInt(SubSeq(q, at + 1, Len(q))).val

\* the offset with every page number below 1 clamped to 1
ClampedOffset == ((IF crit.page < 1 THEN 1 ELSE crit.page) - 1) * crit.rows

\* C16: the offset is (pageNumber - 1) * pageSize with every page number
\* below 1 clamped to 1, so the offset handed to the driver in LIMIT/OFFSET is
\* never negative (stated here for paginationQuery).
C16_OffsetNeverNegative ==
    \A log \in PagedLogs :
        Len(log) = 2 =>
            /\ OffsetLiteral(log[2].sql) = ClampedOffset
            /\ OffsetLiteral(log[2].sql) >= 0

\* the driver answered the count query without a usable count: no row, a row
\* without the column cc, or a row whose cc is null
NoCount(found) == found \in {NoRow, Row(Undefined), Row(Null)}

\* C17: a missing count row, a row without the cc column and a null cc are
\* all treated as a count of 0: paginationQuery returns the all-empty result
\* with count equal to the number 0 and issues no fetch.
C17_MissingCountIsZero ==
    \A k \in PagedCalls :
        NoCount(done[k].found) =>
            /\ done[k].out = [kind |-> "returned", err |-> "", count |-> Num(0),
                              hasMore |-> FALSE, list |-> <<>>, pages |-> 0]
            /\ Len(done[k].queries) = 1

\* C18: within one paginationQuery call the count query is issued first and
\* the fetch query at most once, only after the count query returned a count
\* that is positive and greater than the offset; the fetch is never issued
\* before or while the count query is pending.
C18_CountThenFetch ==
    LET n == TrueCount IN
    /\ \A log \in PagedLogs :
          /\ Len(log) \in {1, 2}
          /\ log[1].kind = "count"
          /\ Len(log) = 2 => log[2].kind = "fetch"
    /\ (InPaged /\ pq.pc = "count") => Len(queries) = 1
    /\ (InPaged /\ pq.pc = "fetch") =>
          /\ pq.found \in {Row(Num(n)), Row(Str(Dec(n)))}
          /\ n > 0
          /\ n > PageOffset
    /\ \A k \in PagedCalls :
          Len(done[k].queries) = 2 =>
              /\ done[k].found \in {Row(Num(n)), Row(Str(Dec(n)))}
              /\ n > 0
              /\ n > PageOffset

\* a call that fetched after its count, and one that did not fetch
C18_Witness ==
    /\ Len(done) = 2
    /\ Len(done[1].queries) = 2
    /\ done[1].out.list # <<>>
    /\ Len(done[2].queries) = 1
    /\ done[2].out.kind = "returned"

\* C19: the fetch query is the SQL body of the count query of that call
\* followed by the order-by and LIMIT/OFFSET fragments, bound to the same
\* parameter values in the same order; the fragments add no placeholder and
\* no parameter.
C19_FetchSameBodyAndParams ==
    \A log \in PagedLogs :
        Len(log) = 2 =>
            LET body == Inner(log[1].sql)
                stmt == log[2].sql
            IN  /\ IsCountSQL(log[1].sql)
                /\ Len(stmt) > Len(body)
                /\ SubSeq(stmt, 1, Len(body)) = body
                /\ \A i \in (Len(body) + 1)..Len(stmt) : stmt[i] # "$"
                /\ log[2].params = log[1].params

\* a fetch over a statement with three placeholders, in the second call
C19_Witness ==
    /\ Len(done) = 2
    /\ Len(done[2].queries) = 2
    /\ Len(done[2].queries[2].params) >= 3
    /\ done[2].out.list # <<>>

\* the quick-search protocol as the finished call d is to follow it: no fetch
\* and an empty result when the count is 0 or the offset is at or beyond it;
\* after a fetch, hasMore = (rows returned < total count)
QuickAsDescribed(d) ==
    CountKnown(d) =>
        /\ d.queries[1].kind = "count"
        /\ (TrueCount = 0 \/ ClampedOffset >= TrueCount) =>
              /\ d.out = QuickOut(<<>>, FALSE)
              /\ Len(d.queries) = 1
        /\ (Len(d.queries) = 2 /\ d.out.kind = "returned") =>
              d.out.hasMore = (Len(d.out.list) < TrueCount)
        /\ (TrueCount = 26 /\ crit.rows = 25 /\ crit.page = 2
               /\ d.out.kind = "returned") =>
              (Len(d.out.list) = 1 /\ d.out.hasMore)

\* C20: quick-search runs the same count-then-fetch protocol (no fetch when
\* the count is 0 or the offset is at or beyond the count, returning an empty
\* list and hasMore false) and, when it fetches, reports
\* hasMore = (number of returned rows < total count): total 26, page size 25,
\* page 2 returns 1 row with hasMore true.
C20_QuickSearch ==
    \A k \in 1..Len(done) :
        done[k].variant \in {"conn", "dao"} => QuickAsDescribed(done[k])

\* DBConnection.quickSearch alone follows the protocol of C20
C20_ConnQuickSearch ==
    \A k \in 1..Len(done) :
        done[k].variant = "conn" => QuickAsDescribed(done[k])

\* DBConnection.quickSearch returned page 2 of 26 rows, page size 25
C20_ConnWitness ==
    /\ done # <<>>
    /\ done[1].variant = "conn"
    /\ done[1].out.kind = "returned"
    /\ TrueCount = 26 /\ crit.rows = 25 /\ crit.page = 2
    /\ Len(done[1].out.list) = 1

\* C21: when the driver raises E during the count query of paginationQuery or
\* quickSearch, the call rejects with E itself, no fetch query is issued and
\* the count query is not issued again; when E is raised during the fetch
\* query the call rejects with E and no query is issued again: each query is
\* attempted at most once per call.
C21_DriverErrorPropagates ==
    \A k \in 1..Len(done) :
        LET d == done[k] IN
        /\ d.raised # "none" =>
              /\ d.out = Rejected(d.raised)
              /\ Len(d.queries) \in {1, 2}
              /\ d.queries[1].kind = "count"
              /\ Len(d.queries) = 2 =>
                    (d.queries[2].kind = "fetch" /\ d.found # Undefined)
              /\ Len(d.queries) = 1 => d.found = Undefined
        /\ d.out.kind = "threw" => d.raised # "none"

\* one call rejected by its count query, the next by its fetch query, with
\* different errors
C21_Witness ==
    /\ Len(done) = 2
    /\ done[1].raised = "E1"
    /\ Len(done[1].queries) = 1
    /\ done[2].raised = "E2"
    /\ Len(done[2].queries) = 2

(***************************************************************************)
(* listQuery calls on a result set                                         *)
(***************************************************************************)

\* listQuery calls of the scenario
MaxLists == 2

\* column values of a row, and the target paths buildFieldsMap gives a column
ColumnValues == {Null, Undefined, Num(0), Str(<<"x">>)}
Columns == <<"c1", "c2">>

\* the target paths of the two columns: plain and nested, nested twice under
\* one intermediate, deep, and paths that collide (one target twice, a target
\* inside another, in both orders)
TargetPaths ==
    {<< <<"a", "_", "b">>, <<"b", ".", "a", "_", "b">> >>,
     << <<"a", ".", "b">>, <<"a", ".", "a">> >>,
     << <<"b">>, <<"a", ".", "b", ".", "a">> >>,
     << <<"a", ".", "a">>, <<"a", ".", "b", ".", "a">> >>,
     << <<"a">>, <<"a">> >>,
     << <<"a">>, <<"a", ".", "b">> >>,
     << <<"a", ".", "b">>, <<"a">> >>,
     << <<"a", ".", "b">>, <<"a", ".", "b", ".", "a">> >>}

\* a row: the first column undefined, 0 or a text, the second null or a text
RowTuples ==
    {(Columns[1] :> v1) @@ (Columns[2] :> v2) :
        v1 \in ColumnValues \ {Null}, v2 \in ColumnValues \ {Undefined, Num(0)}}
ResultSets(maxRows) ==
    [fields : {<<[key |-> Columns[1], path |-> p[1]], [key |-> Columns[2], path |-> p[2]]>> :
                  p \in TargetPaths},
     rows : UNION {[1..k -> RowTuples] : k \in 0..maxRows}]

\* conn.listQuery(sql, params, post): fetchData resolved with the result set
\* of the scenario
DoListQuery ==
    /\ Len(mat.calls) < MaxLists
    /\ \E r \in {ListQuery(heap, mat.input.result, mat.input.post)},
          m \in {ResultToList(heap, mat.input.result)} :
          /\ heap' = r.heap
          /\ mat' = [mat EXCEPT !.calls =
                        Append(@, ListCall(heap, r, m, mat.input.post, 0))]
    /\ UNCHANGED <<txVars, critVars, pageVars, script, beans, mgr, ctor, bits>>

\* the caller changes an object it got back: obj.z = 'y'
Touch(id) ==
    /\ mat.touched = 0
    /\ mat.calls # <<>>
    /\ id \in Reach(heap, UNION {{c.list[k] : k \in 1..Len(c.list)} :
                                   c \in {mat.calls[j] : j \in 1..Len(mat.calls)}})
    /\ heap' = [heap EXCEPT ![id] = SetAttr(heap[id], <<"z">>, Str(<<"y">>))]
    /\ mat' = [mat EXCEPT !.touched = id]
    /\ UNCHANGED <<txVars, critVars, pageVars, script, beans, mgr, ctor, bits>>

MatInit ==
    /\ pc = [i \in Invocations |-> "idle"]
    /\ mode = [i \in Invocations |-> "none"]
    /\ conn = [i \in Invocations |-> NoConn]
    /\ issued = <<>>
    /\ trace = [i \in Invocations |-> <<>>]
    /\ ex = [i \in Invocations |-> "none"]
    /\ completion = [i \in Invocations |-> None]
    /\ outcome = [i \in Invocations |-> None]
    /\ workArg = [i \in Invocations |-> NoConn]
    /\ workEnd = [i \in Invocations |-> None]
    /\ sql = <<>>
    /\ params = <<>>
    /\ call = NoCall
    /\ intro = <<>>
    /\ crit = NoCrit
    /\ pq = NoPq
    /\ queries = <<>>
    /\ done = <<>>
    /\ heap = <<>>
    /\ \E rs \in ResultSets(MaxRows), post \in Hooks :
          mat = [NoMat EXCEPT !.input = [result |-> rs, post |-> post]]
    /\ script = NoScript
    /\ beans = NoBeans
    /\ mgr = NoMgr
    /\ ctor = NoCtor
    /\ bits = NoBits

MatNext ==
    \/ DoListQuery
    \/ \E id \in 1..Len(heap) : Touch(id)

SpecMat == MatInit /\ [][MatNext]_vars

\* the same calls, the caller leaving the objects alone
NestNext == DoListQuery

SpecNest == MatInit /\ [][NestNext]_vars

(***************************************************************************)
(* Claims about the result materializer                                    *)
(***************************************************************************)

MatCalls == {mat.calls[j] : j \in 1..Len(mat.calls)}
MatRows == mat.input.result.rows
MatFields == {mat.input.result.fields[j] : j \in 1..Len(mat.input.result.fields)}

\* the target path of a column as the specification describes it: the
\* '.'-separated segments, each camelCased
Target(path) == [k \in 1..Len(Split(path)) |-> ToCamel(Split(path)[k])]

IsPrefix(u, v) == Len(u) <= Len(v) /\ SubSeq(v, 1, Len(u)) = u

\* no two columns aim at the same attribute, and none at an attribute inside
\* the value of another: only then can one object hold every column's value
ConflictFree(fields) ==
    \A i, j \in 1..Len(fields) :
        i # j => ~IsPrefix(Target(fields[i].path), Target(fields[j].path))

Absent == [absent |-> TRUE]

\* what a by-value object holds at a path of attribute names
RECURSIVE Lookup(_, _)
Lookup(v, segs) ==
    IF segs = <<>> THEN v
    ELSE IF "obj" \in DOMAIN v /\ Head(segs) \in DOMAIN v.obj
    THEN Lookup(v.obj[Head(segs)], Tail(segs))
    ELSE Absent

NonNull(v) == v.t \notin {"null", "undefined"}

\* the intermediate objects the non-null columns of a row need
Intermediates(fields, row) ==
    UNION {{SubSeq(Target(f.path), 1, k) : k \in 1..(Len(Target(f.path)) - 1)} :
              f \in {g \in {fields[j] : j \in 1..Len(fields)} :
                        NonNull(RowValue(row, g.key))}}

RECURSIVE SumOver(_, _)
SumOver(f, S) ==
    IF S = {} THEN 0
    ELSE LET x == CHOOSE y \in S : TRUE IN f[x] + SumOver(f, S \ {x})

AtOrBeneath(P) == {g \in MatFields : IsPrefix(P, Target(g.path))}
Beneath(P) == {g \in AtOrBeneath(P) : Target(g.path) # P}
\* two columns aim at the same attribute or one inside the other
Collide(f, g) ==
    IsPrefix(Target(f.path), Target(g.path)) \/ IsPrefix(Target(g.path), Target(f.path))
IsObject(v) == "obj" \in DOMAIN v

\* C35: in resultToList an intermediate nested object exists in a row's
\* object only if a column mapped beneath that prefix is non-null in the row;
\* when every column at or beneath a prefix is null the attribute is absent
\* (no empty object is left, in the object or on the heap); and a non-null
\* value stays at its target whatever null columns of the row come before or
\* after it.
C35_NoEmptyParents ==
    \A c \in MatCalls :
        ~c.threw =>
            /\ Len(c.made) = Len(MatRows)
            /\ \A k \in 1..Len(MatRows), f \in MatFields :
                  LET v == RowValue(MatRows[k], f.key)
                      t == Target(f.path)
                  IN  /\ \A n \in 1..(Len(t) - 1) :
                            LET P == SubSeq(t, 1, n)
                                at == Lookup(c.made[k], P)
                            IN  /\ IsObject(at) =>
                                      /\ \E g \in Beneath(P) :
                                            NonNull(RowValue(MatRows[k], g.key))
                                      /\ DOMAIN at.obj # {}
                                /\ (\A g \in AtOrBeneath(P) :
                                        ~NonNull(RowValue(MatRows[k], g.key)))
                                   => at = Absent
                      /\ (/\ NonNull(v)
                          /\ \A g \in MatFields \ {f} :
                                Collide(f, g) => ~NonNull(RowValue(MatRows[k], g.key)))
                         => Lookup(c.made[k], t) = v
            /\ c.top - c.base =
                  SumOver([k \in 1..Len(MatRows) |->
                              1 + Cardinality(Intermediates(mat.input.result.fields,
                                                            MatRows[k]))],
                          1..Len(MatRows))

\* columns mapped to a.b and to a: a row with both null gives {}, a row with
\* a.b = 'x' followed by a null a keeps {a: {b: 'x'}}
C35_Witness ==
    /\ Len(mat.calls) >= 1
    /\ ~mat.calls[1].threw
    /\ mat.input.result.fields[1].path = <<"a", ".", "b">>
    /\ mat.input.result.fields[2].path = <<"a">>
    /\ Len(MatRows) = 2
    /\ MatRows[1] = (Columns[1] :> Undefined) @@ (Columns[2] :> Null)
    /\ MatRows[2] = (Columns[1] :> Str(<<"x">>)) @@ (Columns[2] :> Null)
    /\ mat.calls[1].made[1] = [obj |-> EmptyObj]
    /\ mat.calls[1].made[2] =
          [obj |-> (<<"a">> :> [obj |-> (<<"b">> :> Str(<<"x">>))])]

\* a by-value object after the counting hook ran once on it
HookedOnce(v) == [obj |-> SetAttr(v.obj, HookAttr, Num(1))]

\* C23: a listQuery call that was given a hook invokes it on the objects of
\* the returned list, each once, in row order, after they were materialized;
\* the returned objects are the ones that carry the hook's effect; without a
\* hook nothing is invoked; and the fetch of paginationQuery is a listQuery
\* call that was given the criteria's getPostConstructor()
C23_HookOncePerObject ==
    /\ \A c \in MatCalls :
          ~c.threw =>
             /\ Cardinality({c.list[k] : k \in 1..Len(c.list)}) = Len(c.list)
             /\ Len(c.made) = Len(c.list)
             /\ IF c.post = "none"
                THEN /\ c.hooked = <<>>
                     /\ c.values = c.made
                     /\ \A k \in 1..Len(c.list) : HookedTimes(heap[c.list[k]]) = 0
                ELSE /\ c.hooked = c.list
                     /\ \A k \in 1..Len(c.list) :
                           /\ c.values[k] = HookedOnce(c.made[k])
                           /\ HookedTimes(heap[c.list[k]]) = 1
    /\ \A j \in 1..Len(done) :
          (done[j].variant = "criteria" /\ done[j].out.kind = "returned"
             /\ Len(done[j].queries) = 2) =>
             \E c \in MatCalls :
                /\ c.by = j
                /\ c.post = crit.post
                /\ Len(c.list) = Len(done[j].out.list)
                /\ \A k \in 1..Len(c.list) :
                      /\ Lookup(c.made[k], <<NameOf>>) = Str(done[j].out.list[k].name)
                      /\ HookedTimes(heap[c.list[k]]) = IF crit.post = "none" THEN 0 ELSE 1

\* a page of two objects came back from a criteria with a hook, and a second
\* page after it
C23_Witness ==
    /\ crit.post = "count"
    /\ Len(done) = 2
    /\ Len(mat.calls) = 2
    /\ Len(mat.calls[1].list) = 2
    /\ mat.calls[2].hooked = mat.calls[2].list
    /\ mat.calls[2].list # <<>>

\* the objects returned so far, each as <<call, row>>
Produced == {<<j, k>> \in (1..Len(mat.calls)) \X (1..MaxRows) : k <= Len(mat.calls[j].list)}
Graph(p) == Reach(heap, {mat.calls[p[1]].list[p[2]]})

\* C26: the objects of two different rows, of one listQuery call or of two,
\* have no object in common, top-level or nested; every object of a row was
\* created by the call that returned it; and after the caller changed one
\* object, every row that the object does not belong to has the value it was
\* returned with
C26_RowsShareNothing ==
    /\ \A p, q \in Produced : p # q => Graph(p) \cap Graph(q) = {}
    /\ \A p \in Produced :
          \A id \in Graph(p) : mat.calls[p[1]].base < id /\ id <= mat.calls[p[1]].top
    /\ \A p \in Produced :
          mat.touched \notin Graph(p) =>
             Deref(heap, mat.calls[p[1]].list[p[2]]) = mat.calls[p[1]].values[p[2]]

\* two calls of two rows with a nested object each, and the caller changed
\* the nested object of one row
C26_Witness ==
    /\ Len(mat.calls) = 2
    /\ \A p \in Produced : Cardinality(Graph(p)) = 2
    /\ Cardinality(Produced) = 4
    /\ mat.touched # 0
    /\ mat.touched \notin {mat.calls[p[1]].list[p[2]] : p \in Produced}
    /\ \E p \in Produced :
          Deref(heap, mat.calls[p[1]].list[p[2]]) # mat.calls[p[1]].values[p[2]]

(***************************************************************************)
(* SQL script loader: DBConnection.loadAndSplitSQL, executeSQLFile         *)
(*                                                                         *)
(* The text of a script is the sequence of its characters.                 *)
(***************************************************************************)

\* most pieces (statement or comment lines) of a composed script, and the
\* length of the scripts taken character by character
MaxPieces == 3
MaxRawLen == 4

LineTerminators == {"\n", "\r"}

\* the first index from which sub occurs in text, 0 when it does not
Find(text, sub, from) ==
    LET at == {i \in from..(Len(text) - Len(sub) + 1) :
                  SubSeq(text, i, i + Len(sub) - 1) = sub}
    IN  IF at = {} THEN 0 ELSE CHOOSE i \in at : \A j \in at : i <= j
Contains(text, sub) == Find(text, sub, 1) # 0

\* sql.replace(/\/\*[\s\S]*?\*\//g, ''): from each '/*' the shortest text to
\* a '*/' goes; the scan goes on behind the match
RECURSIVE RemoveBlockComments(_)
RemoveBlockComments(text) ==
    IF text = <<>> THEN <<>>
    ELSE LET close == IF Len(text) >= 2 /\ text[1] = "/" /\ text[2] = "*"
                      THEN Find(text, <<"*", "/">>, 3) ELSE 0
         IN  IF close # 0
             THEN RemoveBlockComments(SubSeq(text, close + 2, Len(text)))
             ELSE <<Head(text)>> \o RemoveBlockComments(Tail(text))

\* the text from the first line terminator on
RECURSIVE RestOfLine(_)
RestOfLine(text) ==
    IF text = <<>> \/ Head(text) \in LineTerminators THEN text
    ELSE RestOfLine(Tail(text))

\* sql.replace(/--.*$/gm, '') and sql.replace(/\/\/.*$/gm, ''): from the
\* doubled marker to the end of the line
RECURSIVE RemoveLineComments(_, _)
RemoveLineComments(text, marker) ==
    IF text = <<>> THEN <<>>
    ELSE IF Len(text) >= 2 /\ text[1] = marker /\ text[2] = marker
    THEN RemoveLineComments(RestOfLine(text), marker)
    ELSE <<Head(text)>> \o RemoveLineComments(Tail(text), marker)

\* the length of the whitespace run text starts with
RECURSIVE SpaceRun(_)
SpaceRun(text) ==
    IF text = <<>> \/ Head(text) \notin Whitespace THEN 0
    ELSE 1 + SpaceRun(Tail(text))

\* how many characters /;\s*[\r\n]+|;\s*$/ matches at a ';' that text starts
\* with, 0 when it does not match: through the last line terminator of the
\* whitespace behind the ';', or to the end of the text
MatchTerminator(text) ==
    LET run == SpaceRun(Tail(text))
        ends == {i \in 2..(run + 1) : text[i] \in LineTerminators}
    IN  IF ends # {} THEN CHOOSE i \in ends : \A j \in ends : j <= i
        ELSE IF run + 1 = Len(text) THEN Len(text)
        ELSE 0

\* sql.split(/;\s*[\r\n]+|;\s*$/), cur being the piece collected so far
RECURSIVE SplitStatements(_, _)
SplitStatements(text, cur) ==
    IF text = <<>> THEN <<cur>>
    ELSE LET m == IF Head(text) = ";" THEN MatchTerminator(text) ELSE 0
         IN  IF m # 0
             THEN <<cur>> \o SplitStatements(SubSeq(text, m + 1, Len(text)), <<>>)
             ELSE SplitStatements(Tail(text), Append(cur, Head(text)))

\* .map(stmt => stmt.trim()).filter(stmt => stmt.length > 0)
RECURSIVE TrimAndFilter(_)
TrimAndFilter(parts) ==
    IF parts = <<>> THEN <<>>
    ELSE LET stmt == Trim(Head(parts))
         IN  (IF Len(stmt) > 0 THEN <<stmt>> ELSE <<>>) \o TrimAndFilter(Tail(parts))

\* loadAndSplitSQL with line comments taken out before block comments
LoadAndSplitSQLLineFirst(text) ==
    TrimAndFilter(SplitStatements(
        RemoveBlockComments(RemoveLineComments(RemoveLineComments(text, "-"), "/")),
        <<>>))

\* loadAndSplitSQL once the file was read
LoadAndSplitSQL(text) ==
    TrimAndFilter(SplitStatements(
        RemoveLineComments(RemoveLineComments(RemoveBlockComments(text), "-"), "/"),
        <<>>))

(***************************************************************************)
(* executeSQLFile on a script file                                         *)
(***************************************************************************)

\* a statement of a script: its text and what ends it in the file
Statement(body, end) == [kind |-> "stmt", body |-> body, text |-> body \o end]
\* a last statement, without the line terminator or without the ';'
LastStatement(body, end) == [kind |-> "last", body |-> body, text |-> body \o end]
\* a comment on lines of its own
Comment(text) == [kind |-> "comment", body |-> <<>>, text |-> text]
\* a text taken character by character
Raw(text) == [kind |-> "raw", body |-> <<>>, text |-> text]

Pieces ==
    {Statement(<<"s">>, <<";", "\n">>),
     Statement(<<"t">>, <<";", "\r", "\n">>),
     Statement(<<"s", ";", "t">>, <<";", " ", "\n">>),
     Statement(<<"s", "/", "/", "t">>, <<";", "\n">>),
     LastStatement(<<"t">>, <<>>),
     LastStatement(<<"s">>, <<";">>),
     Comment(<<"-", "-", "c", "\n">>),
     Comment(<<"/", "*", "c", "*", "/", "\n">>),
     Comment(<<"/", "*", "c", "\n", "c", "*", "/", "\n">>),
     Comment(<<"-", "-", "c", ";", "\n">>),
     Comment(<<"/", "*", "-", "-", "c", "*", "/", "\n">>),
     Comment(<<"-", "-", "/", "*", "\n">>)}

RawChars == {"s", ";", "\n", " ", "-", "/", "*"}
RawTexts(len) == UNION {[1..k -> RawChars] : k \in 1..len}

\* a block comment closed by the '/' of the next one
Abutting == <<"/", "/", "*", "*", "/", "*", "*", "/">>

RECURSIVE Concat(_)
Concat(ps) == IF ps = <<>> THEN <<>> ELSE Head(ps).text \o Concat(Tail(ps))

\* the files of the scenarios, each with the pieces it was written from
Scripts(maxPieces, maxRawLen) ==
    {[pieces |-> ps, text |-> Concat(ps)] :
        ps \in UNION {[1..k -> Pieces] : k \in 0..maxPieces}}
    \cup {[pieces |-> <<Raw(t)>>, text |-> t] : t \in RawTexts(maxRawLen) \cup {Abutting}}

\* conn.executeSQLFile(file): the file is read and split; the first
\* statement is sent, or the call returns when there is none
ExecuteSQLFile ==
    /\ script.pc = "idle"
    /\ \E st \in {LoadAndSplitSQL(script.text)} :
          script' = [script EXCEPT !.stmts = st,
                                   !.pc = IF st = <<>> THEN "done" ELSE "run",
                                   !.returned = (st = <<>>)]
    /\ UNCHANGED <<txVars, critVars, pageVars, heap, mat, beans, mgr, ctor, bits>>

\* a failing statement ends the run of the script
SettleAbortsOnFailure(ok) ==
    LET k == Len(script.executed) + 1
        last == k = Len(script.stmts) \/ ~ok
    IN  script' = [script EXCEPT
                      !.executed = Append(@, [stmt |-> script.stmts[k], ok |-> ok]),
                      !.hasError = @ \/ ~ok,
                      !.pc = IF last THEN "done" ELSE "run",
                      !.returned = last]

\* the statement in flight is settled: the next one is sent, or the call
\* returns hasError behind the last one
Settle(ok) ==
    LET k == Len(script.executed) + 1
        last == k = Len(script.stmts)
    IN  script' = [script EXCEPT
                      !.executed = Append(@, [stmt |-> script.stmts[k], ok |-> ok]),
                      !.hasError = @ \/ ~ok,
                      !.pc = IF last THEN "done" ELSE "run",
                      !.returned = last]

\* await this.executeSQL(statement) resolves
StatementResolves ==
    /\ script.pc = "run"
    /\ Settle(TRUE)
    /\ UNCHANGED <<txVars, critVars, pageVars, heap, mat, beans, mgr, ctor, bits>>

\* await this.executeSQL(statement) rejects: caught, hasError = true
StatementRejects ==
    /\ script.pc = "run"
    /\ Settle(FALSE)
    /\ UNCHANGED <<txVars, critVars, pageVars, heap, mat, beans, mgr, ctor, bits>>

ScriptInit ==
    /\ pc = [i \in Invocations |-> "idle"]
    /\ mode = [i \in Invocations |-> "none"]
    /\ conn = [i \in Invocations |-> NoConn]
    /\ issued = <<>>
    /\ trace = [i \in Invocations |-> <<>>]
    /\ ex = [i \in Invocations |-> "none"]
    /\ completion = [i \in Invocations |-> None]
    /\ outcome = [i \in Invocations |-> None]
    /\ workArg = [i \in Invocations |-> NoConn]
    /\ workEnd = [i \in Invocations |-> None]
    /\ sql = <<>>
    /\ params = <<>>
    /\ call = NoCall
    /\ intro = <<>>
    /\ crit = NoCrit
    /\ pq = NoPq
    /\ queries = <<>>
    /\ done = <<>>
    /\ heap = <<>>
    /\ mat = NoMat
    /\ \E f \in Scripts(MaxPieces, MaxRawLen) :
          script = [NoScript EXCEPT !.text = f.text, !.pieces = f.pieces]
    /\ beans = NoBeans
    /\ mgr = NoMgr
    /\ ctor = NoCtor
    /\ bits = NoBits

ScriptNext ==
    \/ ExecuteSQLFile
    \/ StatementResolves
    \/ StatementRejects

SpecScript == ScriptInit /\ [][ScriptNext]_vars

(***************************************************************************)
(* Claims about the script loader                                          *)
(***************************************************************************)

\* C24: executeSQLFile sends the statements of loadAndSplitSQL one at a time,
\* in order, each once; a statement that fails does not stop the following
\* ones; the call returns (it has no rejecting path behind the split) once
\* every statement was sent, with true exactly when a statement failed
C24_EveryStatementOnce ==
    /\ script.pc # "idle" => script.stmts = LoadAndSplitSQL(script.text)
    /\ Len(script.executed) <= Len(script.stmts)
    /\ \A k \in 1..Len(script.executed) : script.executed[k].stmt = script.stmts[k]
    /\ script.returned <=> script.pc = "done"
    /\ script.returned =>
          /\ Len(script.executed) = Len(script.stmts)
          /\ script.hasError <=>
                \E k \in 1..Len(script.executed) : ~script.executed[k].ok

\* three statements, the first failed, the other two ran, the call said true
C24_Witness ==
    /\ script.returned
    /\ Len(script.stmts) = 3
    /\ ~script.executed[1].ok
    /\ script.executed[2].ok
    /\ script.executed[3].ok
    /\ script.hasError

ScriptPieces == {script.pieces[k] : k \in 1..Len(script.pieces)}
Yielded == {script.stmts[k] : k \in 1..Len(script.stmts)}

\* the scripts of the claim: statements that end in ';' and a line break,
\* comments on lines of their own, and the last statement free to end
\* without the line break or without the ';'
WellFormed ==
    /\ script.pieces # <<>>
    /\ \A k \in 1..Len(script.pieces) :
          \/ script.pieces[k].kind \in {"stmt", "comment"}
          \/ script.pieces[k].kind = "last" /\ k = Len(script.pieces)

\* the statements such a script was written from
RECURSIVE Bodies(_)
Bodies(ps) ==
    IF ps = <<>> THEN <<>>
    ELSE (IF Head(ps).kind = "comment" THEN <<>> ELSE <<Head(ps).body>>) \o Bodies(Tail(ps))

BlockOpen == <<"/", "*">>
BlockClose == <<"*", "/">>
HasBlockComment(text) ==
    \E i \in 1..(Len(text) - 1) :
        SubSeq(text, i, i + 1) = BlockOpen /\ Find(text, BlockClose, i + 2) # 0
HasLineMarker(text) == Contains(text, <<"-", "-">>) \/ Contains(text, <<"/", "/">>)
IsLineComment(p) ==
    p.kind = "comment" /\ SubSeq(p.text, 1, 2) \in {<<"-", "-">>, <<"/", "/">>}

\* no statement carries a comment marker, no line comment opens a block
NoMarkerInside ==
    \A p \in ScriptPieces :
        /\ p.kind \in {"stmt", "last"} => ~HasLineMarker(p.body) /\ ~Contains(p.body, BlockOpen)
        /\ IsLineComment(p) => ~Contains(p.text, BlockOpen)

NeverEmptyOrUntrimmed == \A st \in Yielded : st # <<>> /\ Trim(st) = st

FreshQuery == done # <<>> /\ done[1].variant = "query" /\ done[1].out.kind = "returned"

\* C27: criteria.query on a freshly constructed criteria sends one statement
\* and no count query; the statement is the one paginationQuery builds for
\* that criteria (base SQL, the clauses of buildDynamicQuery, the ordering)
\* without the limit fragment, bound to the same parameters; and the list is
\* every row that matches the criteria
C27_QueryLikePagination ==
    FreshQuery =>
       LET built == BuildDynamicQuery(Criteria(BaseSQL, <<>>), crit)
       IN  /\ Len(done[1].queries) = 1
           /\ done[1].queries[1] = Query("fetch", AllSQL(built.sql), built.params)
           /\ done[1].out.list = TrueList

(***************************************************************************)
(* StringUtils.parseNumber and the CommonSearchCriteria constructor        *)
(***************************************************************************)

\* longest text handed over as page or rows
NumberTextLen == 2

FIRST_PAGE == 1

\* typeof s == 'number': NaN is a number too
TypeofNumber(v) == v.t \in {"number", "nan"}

\* Number(text) is NaN: the text, blanks at both ends aside, is neither empty
\* nor an optional '-' and digits with at most one '.' among them
StringIsNaN(text) ==
    LET t == Trim(text)
        body == IF t # <<>> /\ Head(t) = "-" THEN Tail(t) ELSE t
        whole == LeadDigits(body)
        rest == SubSeq(body, whole + 1, Len(body))
        frac == IF rest = <<>> THEN <<>> ELSE Tail(rest)
    IN  IF t = <<>> THEN FALSE
        ELSE IF rest = <<>> THEN whole = 0
        ELSE ~(Head(rest) = "." /\ LeadDigits(frac) = Len(frac) /\ whole + Len(frac) > 0)

\* StringUtils.isNumber: isString(s) && !isNaN(s)
IsNumber(v) == IsString(v) /\ ~StringIsNaN(v.s)

\* StringUtils.parseNumber:
\*   typeof s == 'number' ? s : isNumber(s) ? parseInt(s) : defValue
ParseNumber(s, defValue) ==
    IF TypeofNumber(s) THEN s
    ELSE IF IsNumber(s) THEN ParseInt(s)
    ELSE Num(defValue)

\* what page and rows of the object given to the constructor may be
NumberChars == {"1", "2", " ", ".", "a", "-"}
NumberInputs(len) ==
    {Undefined, Null, Num(0), Num(3), NaN}
    \cup {Str(t) : t \in UNION {[1..k -> NumberChars] : k \in 0..len}}

\* the argument of the constructor: nothing, or an object
GivenCriteria(len) ==
    {Undefined} \cup [page : NumberInputs(len), rows : NumberInputs(len)]

\* criteria?.page
Optional(obj, attr) == IF obj = Undefined THEN Undefined ELSE obj[attr]

\* new SomeCriteria(given): this.page and this.rows
Construct(given) ==
    /\ ctor.pc = "idle"
    /\ ctor' = [pc |-> "made", given |-> given,
                page |-> ParseNumber(Optional(given, "page"), FIRST_PAGE),
                rows |-> ParseNumber(Optional(given, "rows"), DEFAULT_ROWS_PAGE)]
    /\ UNCHANGED <<txVars, critVars, pageVars, heap, mat, script, beans, mgr, bits>>

CtorInit ==
    /\ pc = [i \in Invocations |-> "idle"]
    /\ mode = [i \in Invocations |-> "none"]
    /\ conn = [i \in Invocations |-> NoConn]
    /\ issued = <<>>
    /\ trace = [i \in Invocations |-> <<>>]
    /\ ex = [i \in Invocations |-> "none"]
    /\ completion = [i \in Invocations |-> None]
    /\ outcome = [i \in Invocations |-> None]
    /\ workArg = [i \in Invocations |-> NoConn]
    /\ workEnd = [i \in Invocations |-> None]
    /\ sql = <<>>
    /\ params = <<>>
    /\ call = NoCall
    /\ intro = <<>>
    /\ crit = NoCrit
    /\ pq = NoPq
    /\ queries = <<>>
    /\ done = <<>>
    /\ heap = <<>>
    /\ mat = NoMat
    /\ script = NoScript
    /\ beans = NoBeans
    /\ mgr = NoMgr
    /\ ctor = NoCtor
    /\ bits = NoBits

CtorNext ==
    \/ \E given \in GivenCriteria(NumberTextLen) : Construct(given)

SpecCtor == CtorInit /\ [][CtorNext]_vars

\* what the constructor is to make of a page or rows value: the value when it
\* is a number, the integer when it is a string that parses as one, the
\* default otherwise
Described(s, defValue) ==
    IF TypeofNumber(s) THEN s
    ELSE IF IsString(s) /\ Trim(s.s) # <<>> /\ ~StringIsNaN(s.s) THEN ParseInt(s)
    ELSE Num(defValue)

\* C28: page and rows of a constructed criteria are the given number, the
\* integer a given numeric string parses to, and 1 and 25 for anything else
\* (absent, null, empty or blank string, text that is no number); a value that
\* was not given as a number never ends up NaN
C28_ParseNumberDefaults ==
    ctor.pc = "made" =>
       LET page == Optional(ctor.given, "page")
           rows == Optional(ctor.given, "rows")
       IN  /\ ctor.page = Described(page, FIRST_PAGE)
           /\ ctor.rows = Described(rows, DEFAULT_ROWS_PAGE)
           /\ ~TypeofNumber(page) => ctor.page # NaN
           /\ ~TypeofNumber(rows) => ctor.rows # NaN

(***************************************************************************)
(* BeanFactory: register, getInstance, createInstance, createBean          *)
(*                                                                         *)
(* beans.map is #map; an instance is the index of its construction in      *)
(* beans.made, 0 standing for undefined; beans.log is the history of the   *)
(* calls.                                                                  *)
(***************************************************************************)

\* calls made on the factory
MaxBeanOps == 5

BeanNames == {"a", "b"}
BeanClasses == {"X", "Y"}
\* the scope argument of register; "default" is the argument left out
ScopeArgs == {"default", "Singleton", "Prototype"}

\* scope: Scope = Scope.Singleton
ScopeOf(arg) == IF arg = "default" THEN "Singleton" ELSE arg

\* this.#map.set(name, item)
MapSet(map, name, item) ==
    [n \in (DOMAIN map) \cup {name} |-> IF n = name THEN item ELSE map[n]]

\* register that keeps the instance of the registration it replaces
RegisteredKeepingInstance(map, name, beanClass, scope) ==
    MapSet(map, name,
           [beanClass |-> beanClass, scope |-> scope,
            beanInstance |-> IF name \in DOMAIN map THEN map[name].beanInstance ELSE 0])

\* this.#map.set(name, {beanClass, scope}): beanInstance is not set
Registered(map, name, beanClass, scope) ==
    MapSet(map, name, [beanClass |-> beanClass, scope |-> scope, beanInstance |-> 0])

\* factory.register(name, beanClass, scope)
Register(name, beanClass, arg) ==
    /\ Len(beans.log) < MaxBeanOps
    /\ beans' = [beans EXCEPT
                    !.map = Registered(@, name, beanClass, ScopeOf(arg)),
                    !.log = Append(@, [kind |-> "register", name |-> name,
                                       beanClass |-> beanClass,
                                       scope |-> ScopeOf(arg), ret |-> 0])]
    /\ UNCHANGED <<txVars, critVars, pageVars, heap, mat, script, mgr, ctor, bits>>

\* getInstance(name): undefined for a name that is not registered, a new
\* instance for a prototype, the instance of the item, constructed when the
\* item has none, for a singleton
Answer(name) ==
    LET known == name \in DOMAIN beans.map
           item == beans.map[name]
           construct == known /\ (item.scope = "Prototype" \/ item.beanInstance = 0)
           fresh == Len(beans.made) + 1
           ret == IF ~known THEN 0
                  ELSE IF construct THEN fresh
                  ELSE item.beanInstance
    IN  beans' = [beans EXCEPT
                     !.map = IF known /\ construct /\ item.scope # "Prototype"
                             THEN [@ EXCEPT ![name].beanInstance = fresh]
                             ELSE @,
                     !.made = IF construct
                              THEN Append(@, [beanClass |-> item.beanClass,
                                              at |-> Len(beans.log) + 1])
                              ELSE @,
                     !.log = Append(@, [kind |-> "request", name |-> name,
                                        beanClass |-> "", scope |-> "",
                                        ret |-> ret])]

\* factory.getInstance(name)
GetInstance(name) ==
    /\ Len(beans.log) < MaxBeanOps
    /\ Answer(name)
    /\ UNCHANGED <<txVars, critVars, pageVars, heap, mat, script, mgr, ctor, bits>>

\* factory.createInstance(name): return this.getInstance(name)
CreateInstance(name) ==
    /\ Len(beans.log) < MaxBeanOps
    /\ Answer(name)
    /\ UNCHANGED <<txVars, critVars, pageVars, heap, mat, script, mgr, ctor, bits>>

\* factory.createBean(name): return this.getInstance(name)
CreateBean(name) ==
    /\ Len(beans.log) < MaxBeanOps
    /\ Answer(name)
    /\ UNCHANGED <<txVars, critVars, pageVars, heap, mat, script, mgr, ctor, bits>>

BeanInit ==
    /\ pc = [i \in Invocations |-> "idle"]
    /\ mode = [i \in Invocations |-> "none"]
    /\ conn = [i \in Invocations |-> NoConn]
    /\ issued = <<>>
    /\ trace = [i \in Invocations |-> <<>>]
    /\ ex = [i \in Invocations |-> "none"]
    /\ completion = [i \in Invocations |-> None]
    /\ outcome = [i \in Invocations |-> None]
    /\ workArg = [i \in Invocations |-> NoConn]
    /\ workEnd = [i \in Invocations |-> None]
    /\ sql = <<>>
    /\ params = <<>>
    /\ call = NoCall
    /\ intro = <<>>
    /\ crit = NoCrit
    /\ pq = NoPq
    /\ queries = <<>>
    /\ done = <<>>
    /\ heap = <<>>
    /\ mat = NoMat
    /\ script = NoScript
    /\ beans = NoBeans
    /\ mgr = NoMgr
    /\ ctor = NoCtor
    /\ bits = NoBits

BeanNext ==
    \/ \E name \in BeanNames, beanClass \in BeanClasses, arg \in ScopeArgs :
          Register(name, beanClass, arg)
    \/ \E name \in BeanNames : GetInstance(name)
    \/ \E name \in BeanNames : CreateInstance(name)
    \/ \E name \in BeanNames : CreateBean(name)

SpecBean == BeanInit /\ [][BeanNext]_vars

\* the registration in force for the call at position k of the history: the
\* last register of the name before it, 0 when there is none
InForce(name, k) ==
    LET regs == {j \in 1..(k - 1) :
                    beans.log[j].kind = "register" /\ beans.log[j].name = name}
    IN  IF regs = {} THEN 0 ELSE CHOOSE j \in regs : \A i \in regs : i <= j

Requests == {k \in 1..Len(beans.log) : beans.log[k].kind = "request"}

\* C29: a request for a name answers from the name's most recent
\* registration (undefined when there is none): under Prototype every request
\* constructs and returns a new instance of the class; under Singleton the
\* first request after the registration constructs the instance and every
\* later request, until the name is registered again, returns that same
\* instance; a registration constructs nothing
C29_Scopes ==
    /\ \A k \in Requests :
          LET r == beans.log[k]
              g == InForce(r.name, k)
              earlier == {j \in Requests : j < k /\ beans.log[j].name = r.name
                                              /\ InForce(r.name, j) = g}
          IN  IF g = 0 THEN r.ret = 0
              ELSE /\ r.ret \in 1..Len(beans.made)
                   /\ beans.made[r.ret].beanClass = beans.log[g].beanClass
                   /\ IF beans.log[g].scope = "Prototype"
                      THEN /\ beans.made[r.ret].at = k
                           /\ \A j \in Requests : j < k => beans.log[j].ret # r.ret
                      ELSE /\ beans.made[r.ret].at > g
                           /\ earlier = {} => beans.made[r.ret].at = k
                           /\ \A j \in earlier : beans.log[j].ret = r.ret
    /\ \A i \in 1..Len(beans.made) :
          /\ beans.made[i].at \in Requests
          /\ \A j \in 1..Len(beans.made) : beans.made[j].at = beans.made[i].at => i = j

\* a singleton asked for twice, registered again with another class and
\* asked for once more; a prototype asked for in between
C29_Witness ==
    /\ Len(beans.log) = MaxBeanOps
    /\ \E k \in Requests, j \in Requests :
          /\ j < k
          /\ beans.log[j].name = beans.log[k].name
          /\ beans.log[j].ret = beans.log[k].ret
          /\ beans.log[k].ret # 0
    /\ \E k \in Requests, j \in Requests :
          /\ j < k
          /\ beans.log[j].name = beans.log[k].name
          /\ InForce(beans.log[k].name, k) # InForce(beans.log[k].name, j)
          /\ InForce(beans.log[k].name, j) # 0

(***************************************************************************)
(* DBManager: init, getInstance, connect                                   *)
(*                                                                         *)
(* mgr.instance is DBManager.instance (global.DBManagerInstance in the     *)
(* copy of the class in DBFactory.ts): the index of a manager in           *)
(* mgr.managers, 0 while it is undefined; mgr.log is the history of calls. *)
(***************************************************************************)

\* calls made on DBManager
MaxMgrOps == 5

Factories == {"f1", "f2"}

\* init that installs the manager of every call
InstalledLatest(cur, fresh) == fresh

\* if (DBManager.instance == null) DBManager.instance = new DBManager(factory)
Installed(cur, fresh) == IF cur = 0 THEN fresh ELSE cur

\* DBManager.init(factory)
InitManager(factory) ==
    /\ Len(mgr.log) < MaxMgrOps
    /\ LET fresh == Len(mgr.managers) + 1
           now == Installed(mgr.instance, fresh)
       IN  mgr' = [instance |-> now,
                   managers |-> IF now = fresh
                                THEN Append(mgr.managers, [factory |-> factory])
                                ELSE mgr.managers,
                   log |-> Append(mgr.log, [op |-> "init", factory |-> factory,
                                            ret |-> now, asked |-> <<>>, ok |-> TRUE])]
    /\ UNCHANGED <<txVars, critVars, pageVars, heap, mat, script, beans, ctor, bits>>

\* DBManager.getInstance()
GetManager ==
    /\ Len(mgr.log) < MaxMgrOps
    /\ mgr' = [mgr EXCEPT !.log = Append(@, [op |-> "getInstance", factory |-> "",
                                            ret |-> mgr.instance, asked |-> <<>>,
                                            ok |-> TRUE])]
    /\ UNCHANGED <<txVars, critVars, pageVars, heap, mat, script, beans, ctor, bits>>

\* DBManager.getInstance().connect(): await this.factory.createDBConnection(),
\* which resolves with a connection or rejects
Connect(ok) ==
    /\ Len(mgr.log) < MaxMgrOps
    /\ mgr.instance # 0
    /\ mgr' = [mgr EXCEPT !.log =
                  Append(@, [op |-> "connect", factory |-> "", ret |-> mgr.instance,
                             asked |-> <<mgr.managers[mgr.instance].factory>>,
                             ok |-> ok])]
    /\ UNCHANGED <<txVars, critVars, pageVars, heap, mat, script, beans, ctor, bits>>

MgrInit ==
    /\ pc = [i \in Invocations |-> "idle"]
    /\ mode = [i \in Invocations |-> "none"]
    /\ conn = [i \in Invocations |-> NoConn]
    /\ issued = <<>>
    /\ trace = [i \in Invocations |-> <<>>]
    /\ ex = [i \in Invocations |-> "none"]
    /\ completion = [i \in Invocations |-> None]
    /\ outcome = [i \in Invocations |-> None]
    /\ workArg = [i \in Invocations |-> NoConn]
    /\ workEnd = [i \in Invocations |-> None]
    /\ sql = <<>>
    /\ params = <<>>
    /\ call = NoCall
    /\ intro = <<>>
    /\ crit = NoCrit
    /\ pq = NoPq
    /\ queries = <<>>
    /\ done = <<>>
    /\ heap = <<>>
    /\ mat = NoMat
    /\ script = NoScript
    /\ beans = NoBeans
    /\ mgr = NoMgr
    /\ ctor = NoCtor
    /\ bits = NoBits

MgrNext ==
    \/ \E factory \in Factories : InitManager(factory)
    \/ GetManager
    \/ \E ok \in BOOLEAN : Connect(ok)

SpecMgr == MgrInit /\ [][MgrNext]_vars

Inits == {k \in 1..Len(mgr.log) : mgr.log[k].op = "init"}
FirstInit == CHOOSE k \in Inits : \A j \in Inits : k <= j

\* C30: every init returns, and every getInstance after an init returns, the
\* manager that the first init created, and that manager keeps the factory of
\* the first init; only one manager is ever created; each connect asks that
\* first factory for a connection, once, and no other factory
C30_ProcessWideSingleton ==
    /\ Len(mgr.managers) <= 1
    /\ \A k \in 1..Len(mgr.log) :
          LET c == mgr.log[k]
          IN  IF \A j \in Inits : j > k
              THEN c.op = "getInstance" /\ c.ret = 0
              ELSE /\ c.ret = mgr.log[FirstInit].ret
                   /\ c.ret = 1
                   /\ mgr.managers[c.ret].factory = mgr.log[FirstInit].factory
                   /\ c.op = "connect" => c.asked = <<mgr.log[FirstInit].factory>>
                   /\ c.op # "connect" => c.asked = <<>>

\* init with one factory, init with the other, then getInstance and connect
C30_Witness ==
    /\ Len(mgr.log) >= 4
    /\ mgr.log[1].op = "init"
    /\ mgr.log[2].op = "init"
    /\ mgr.log[2].factory # mgr.log[1].factory
    /\ mgr.log[3].op = "getInstance"
    /\ mgr.log[4].op = "connect"
    /\ mgr.log[4].asked = <<mgr.log[1].factory>>

(***************************************************************************)
(* BitsBoolean: a number used as 32 flags.  A JavaScript number is          *)
(* modelled by what the bitwise operators see of it: the 32 bits, in two's *)
(* complement, of the 32-bit signed integer that ToInt32 makes of it;      *)
(* the tag tells an integer of that range from an integer outside it,      *)
(* from a number with a fraction (held by its floor) and from NaN          *)
(***************************************************************************)

\* operations on the object in one scenario
MaxBitOps == 1

\* the highest bit position the guards accept
MaxPos == 31

\* the powers of two below 2^31
RECURSIVE Doubled(_)
Doubled(k) == IF k = 0 THEN 1 ELSE 2 * Doubled(k - 1)
Powers == [k \in 0..(MaxPos - 1) |-> Doubled(k)]
Pow2(k) == Powers[k]

MaxInt32 == (Pow2(MaxPos - 1) - 1) + Pow2(MaxPos - 1)
MinInt32 == (0 - MaxInt32) - 1

\* the 32 bits of a 32-bit signed integer, two's complement: bit 31 is the sign
Bit(n, k) ==
    IF k = MaxPos THEN n < 0
    ELSE ((IF n < 0 THEN (n + MaxInt32) + 1 ELSE n) \div Pow2(k)) % 2 = 1
ToBits(n) == [k \in 0..MaxPos |-> Bit(n, k)]

Int32(n) == [t |-> "int", n |-> ToBits(n)]
Big(low) == [t |-> "big", n |-> ToBits(low)]
Frac(floor) == [t |-> "frac", n |-> ToBits(floor)]
NotANumber == [t |-> "nan", n |-> ToBits(0)]

\* Math.floor(value)
Floor(x) == IF x.t = "frac" THEN [t |-> "int", n |-> x.n] ELSE x

\* ToInt32: the operand of a bitwise operator; NaN gives 0
ToInt32(x) == x.n

\* the number a bitwise operator results in
Number32(b) == [t |-> "int", n |-> b]

\* a | b, a & b, ~a on 32-bit signed integers
BitOr(a, b) == [k \in 0..MaxPos |-> a[k] \/ b[k]]
BitAnd(a, b) == [k \in 0..MaxPos |-> a[k] /\ b[k]]
BitNot(a) == [k \in 0..MaxPos |-> ~a[k]]

\* 1 << count: the shift count is taken modulo 32; 1 << 31 is the sign bit
ShiftLeftOne(count) == [k \in 0..MaxPos |-> k = count % (MaxPos + 1)]

\* x !== 0 for the result of a bitwise operator
NotZero(b) == b # ToBits(0)

\* new BitsBoolean subclass (value): this.value = Math.floor(value)
NewBits(x) == Floor(x)

\* if (pos < 0 || pos > 31) throw new Error("invalid bit pos.")
InvalidPos(pos) == pos < 0 \/ pos > MaxPos

\* setBitValue that clears with  this.value &= (1 << pos)
SetBitValueNoComplement(value, pos, v) ==
    IF InvalidPos(pos) THEN [threw |-> TRUE, value |-> value]
    ELSE IF v
    THEN [threw |-> FALSE, value |-> Number32(BitOr(ToInt32(value), ShiftLeftOne(pos)))]
    ELSE [threw |-> FALSE, value |-> Number32(BitAnd(ToInt32(value), ShiftLeftOne(pos)))]

\* setBitValue(pos, value):  this.value |= (1 << pos)  or
\* this.value &= ~(1 << pos)
SetBitValue(value, pos, v) ==
    IF InvalidPos(pos) THEN [threw |-> TRUE, value |-> value]
    ELSE IF v
    THEN [threw |-> FALSE, value |-> Number32(BitOr(ToInt32(value), ShiftLeftOne(pos)))]
    ELSE [threw |-> FALSE,
          value |-> Number32(BitAnd(ToInt32(value), BitNot(ShiftLeftOne(pos))))]

\* getBitValue(pos):  (this.value & (1 << pos)) !== 0
GetBitValue(value, pos) ==
    IF InvalidPos(pos) THEN [threw |-> TRUE, ret |-> FALSE]
    ELSE [threw |-> FALSE, ret |-> NotZero(BitAnd(ToInt32(value), ShiftLeftOne(pos)))]

\* fromBooleanArray(boolArray): result |= (1 << i) for every true element,
\* i counted from 0; having read the first i elements the result is acc
RECURSIVE FromBooleanArrayFrom(_, _, _)
FromBooleanArrayFrom(a, i, acc) ==
    IF i >= Len(a) THEN acc
    ELSE FromBooleanArrayFrom(a, i + 1,
                              IF a[i + 1] THEN BitOr(acc, ShiftLeftOne(i)) ELSE acc)
FromBooleanArray(a) == Number32(FromBooleanArrayFrom(a, 0, ToBits(0)))

\* toBooleanArray(length): result.push(this.getBitValue(i)) for i < length
RECURSIVE ToBooleanArrayFrom(_, _, _, _)
ToBooleanArrayFrom(value, length, i, out) ==
    IF i >= length THEN [threw |-> FALSE, out |-> out]
    ELSE LET r == GetBitValue(value, i)
         IN  IF r.threw THEN [threw |-> TRUE, out |-> <<>>]
             ELSE ToBooleanArrayFrom(value, length, i + 1, Append(out, r.ret))
ToBooleanArray(value, length) == ToBooleanArrayFrom(value, length, 0, <<>>)

(***************************************************************************)
(* Calls on a BitsBoolean object                                           *)
(***************************************************************************)

\* the numbers a subclass hands to the constructor
BitValues ==
    {Int32(0), Int32(1), Int32(5), Int32(0 - 1), Int32(0 - 2), Int32(MaxInt32), Int32(MinInt32),
     Big(3), Frac(2), Frac(0 - 1), NotANumber}

\* the positions asked for: every valid one and the neighbours of the range
Positions == (0 - 1)..(MaxPos + 1)

\* the boolean arrays: short ones and those of about as many elements as
\* there are flags (one more included), filled by a pattern
Patterns == {"none", "all", "even", "odd", "first", "last"}
BoolArray(len, pat) ==
    [i \in 1..len |->
        CASE pat = "none" -> FALSE
          [] pat = "all" -> TRUE
          [] pat = "even" -> i % 2 = 0
          [] pat = "odd" -> i % 2 = 1
          [] pat = "first" -> i = 1
          [] pat = "last" -> i = len]
BoolArrays(maxLen) ==
    {BoolArray(len, pat) : len \in (0..3) \cup ((maxLen - 2)..maxLen), pat \in Patterns}

BitCall(op, pos, v, threw, ret, before, array, out) ==
    [op |-> op, pos |-> pos, v |-> v, threw |-> threw, ret |-> ret,
     before |-> before, array |-> array, out |-> out]

\* this.setBitValue(pos, v) in a method of the subclass
DoSetBitValue(pos, v) ==
    /\ bits.n < MaxBitOps
    /\ \E r \in {SetBitValue(bits.value, pos, v)} :
          bits' = [value |-> r.value,
                   last |-> BitCall("set", pos, v, r.threw, FALSE, bits.value,
                                    <<>>, <<>>),
                   n |-> bits.n + 1]
    /\ UNCHANGED <<txVars, critVars, pageVars, heap, mat, script, beans, mgr, ctor>>

\* this.getBitValue(pos) in a method of the subclass
DoGetBitValue(pos) ==
    /\ bits.n < MaxBitOps
    /\ \E r \in {GetBitValue(bits.value, pos)} :
          bits' = [value |-> bits.value,
                   last |-> BitCall("get", pos, FALSE, r.threw, r.ret, bits.value,
                                    <<>>, <<>>),
                   n |-> bits.n + 1]
    /\ UNCHANGED <<txVars, critVars, pageVars, heap, mat, script, beans, mgr, ctor>>

\* new Flags(BitsBoolean.fromBooleanArray(a)).toBooleanArray(a.length)
DoBooleanArrays(a) ==
    /\ bits.n < MaxBitOps
    /\ \E made \in {NewBits(FromBooleanArray(a))} :
       \E r \in {ToBooleanArray(made, Len(a))} :
          bits' = [value |-> made,
                   last |-> BitCall("array", 0, FALSE, r.threw, FALSE, bits.value,
                                    a, r.out),
                   n |-> bits.n + 1]
    /\ UNCHANGED <<txVars, critVars, pageVars, heap, mat, script, beans, mgr, ctor>>

BitsInit ==
    /\ pc = [i \in Invocations |-> "idle"]
    /\ mode = [i \in Invocations |-> "none"]
    /\ conn = [i \in Invocations |-> NoConn]
    /\ issued = <<>>
    /\ trace = [i \in Invocations |-> <<>>]
    /\ ex = [i \in Invocations |-> "none"]
    /\ completion = [i \in Invocations |-> None]
    /\ outcome = [i \in Invocations |-> None]
    /\ workArg = [i \in Invocations |-> NoConn]
    /\ workEnd = [i \in Invocations |-> None]
    /\ sql = <<>>
    /\ params = <<>>
    /\ call = NoCall
    /\ intro = <<>>
    /\ crit = NoCrit
    /\ pq = NoPq
    /\ queries = <<>>
    /\ done = <<>>
    /\ heap = <<>>
    /\ mat = NoMat
    /\ script = NoScript
    /\ beans = NoBeans
    /\ mgr = NoMgr
    /\ ctor = NoCtor
    /\ \E x \in BitValues :
          bits = [NoBits EXCEPT !.value = NewBits(x), !.last.before = NewBits(x)]

BitsNext ==
    \/ \E pos \in Positions, v \in BOOLEAN : DoSetBitValue(pos, v)
    \/ \E pos \in Positions : DoGetBitValue(pos)
    \/ \E a \in BoolArrays(MaxPos + 2) : DoBooleanArrays(a)

SpecBits == BitsInit /\ [][BitsNext]_vars

(***************************************************************************)
(* Claims about BitsBoolean                                                *)
(***************************************************************************)

ValidPos == 0..MaxPos

\* C37: for every position 0..31, the sign bit included, and every boolean
\* v, after setBitValue(pos, v) getBitValue(pos) returns v and getBitValue(q)
\* returns what it returned before for every other position q; for a position
\* outside 0..31 setBitValue and getBitValue throw and the value is
\* unchanged; toBooleanArray(n) on a value built by fromBooleanArray(a),
\* n the length of a and at most 32, returns a.
C37_BitsBoolean ==
    LET l == bits.last IN
    /\ l.op = "set" =>
          IF l.pos \in ValidPos
          THEN /\ ~l.threw
               /\ GetBitValue(bits.value, l.pos) = [threw |-> FALSE, ret |-> l.v]
               /\ \A q \in ValidPos \ {l.pos} :
                     GetBitValue(bits.value, q) = GetBitValue(l.before, q)
          ELSE l.threw /\ bits.value = l.before
    /\ l.op = "get" =>
          /\ bits.value = l.before
          /\ l.threw <=> l.pos \notin ValidPos
    /\ (l.op = "array" /\ Len(l.array) <= MaxPos + 1) =>
          /\ ~l.threw
          /\ l.out = l.array

\* the sign bit was set on a value that held other flags
C37_Witness ==
    /\ bits.last.op = "set"
    /\ bits.last.pos = MaxPos
    /\ bits.last.v
    /\ ~bits.last.threw
    /\ bits.last.before = Int32(5)
    /\ bits.value.n[MaxPos]
    /\ bits.value = Int32(MinInt32 + 5)
    /\ GetBitValue(bits.value, 2).ret

\* an array of 32 flags with the last one set went through both conversions
C37_ArrayWitness ==
    /\ bits.last.op = "array"
    /\ Len(bits.last.array) = MaxPos + 1
    /\ bits.last.array[MaxPos + 1]
    /\ bits.last.out = bits.last.array
====
